---- MODULE Spec2Model ----
(***************************************************************************)
(* Verification model of the polymarket-contrarian-bot trading core.       *)
(*                                                                         *)
(*  - the trade ledger          src/lib/trade_logger.py    (LedgerSpec)    *)
(*  - the weather bot's on-chain reconciliation                            *)
(*                              src/strategies/weather_edge.py (ReconSpec) *)
(*  - the momentum sniper engine                                           *)
(*                              src/strategies/momentum_sniper.py          *)
(*      Spec:       first run, fresh ledger, min_size_mode                 *)
(*      OrphanSpec: restart over pending records of the previous session,  *)
(*                  Kelly sizing                                           *)
(*                                                                         *)
(* Money is counted in mills (1/1000 USDC) so that the two-decimal         *)
(* formatting of the CSV log is a real rounding; prices are in cents,      *)
(* token counts are whole tokens.                                          *)
(*                                                                         *)
(* A market slug "btc-updown-5m-1700000300" is the pair <<coin, window>>;  *)
(* the empty slug "" is NoSlug.                                            *)
(***************************************************************************)
EXTENDS Integers, Sequences, FiniteSets, TLC

VARIABLES
    \* ---- TradeLogger (src/lib/trade_logger.py) ----
    pending_trades,   \* self._pending_trades: insertion-ordered dict, a sequence of [key, rec]
    pending_file,     \* the .pending.json sidecar on disk: [exists, data]
    csv_rows,         \* the resolved-trade CSV on disk: sequence of formatted rows
    stats,            \* self.stats (SessionStats)
    \* ---- WeatherEdgeBot (src/strategies/weather_edge.py) ----
    w_positions,      \* self.positions: insertion-ordered dict slug -> PaperPosition
    w_file,           \* weather .pending.json sidecar
    w_balance,        \* self.balance (mills)
    w_chain,          \* the exchange's position list (data-api /positions)
    w_pc,             \* position in __init__ / run
    w_trade,          \* the trade execute_live_trade is placing: slug, cost (<<>>: none)
    \* ---- MomentumSniperStrategy (src/strategies/momentum_sniper.py) ----
    coin_states,      \* self.coin_states[coin]: CoinMarketState
    pending_signals,  \* self._pending_signals: the set of its entries (keys coin:side:slug)
    breaker,          \* _consecutive_loss_windows, _last_loss_window, _circuit_breaker_tripped
    config,           \* SniperConfig: confirm_gap (> 0 or not), min_size_mode
    tick,             \* the position of the running _tick coroutine
    orders,           \* number of place_order calls made so far
    streak,           \* window ids of the losing records settled since the last win
    cash,             \* self._balance (mills)
    wallet,           \* the USDC the exchange holds for the account (mills)
    edge_monitor,     \* self._edge_monitor: [cusum, alarm], or <<>> for None
    sniper_stats,     \* self.stats (SniperStats): wins, losses
    \* ---- MarketMakerStrategy (src/strategies/market_maker.py) ----
    maker,            \* quotes (QuoteState), _last_prices, _current_slug, the manager's market,
                      \* the orders that rest at the exchange
    \* ---- BinancePriceFeed (src/lib/binance_ws.py) ----
    binance,          \* self._state[coin] of the feed: price, last_update
    clock,            \* time.time(), in seconds since the feed was created
    \* ---- one coin's market window (CoinMarketState and its MarketManager) ----
    coin_market,      \* current_slug, startup_slug, strike_price, _strike_source, market_end_ts,
                      \* the manager's market, the pending call_later(_set_strike)
    \* ---- observation of the last operation ----
    last

ledger_vars == <<pending_trades, pending_file, csv_rows, stats>>
weather_vars == <<w_positions, w_file, w_balance, w_chain, w_pc, w_trade>>
sniper_vars == <<coin_states, pending_signals, breaker, config, tick, orders, streak>>
sizer_vars == <<cash, wallet, edge_monitor, sniper_stats>>
feed_vars == <<binance, clock, coin_market>>
vars == <<ledger_vars, weather_vars, sniper_vars, sizer_vars, maker, feed_vars, last>>

----------------------------------------------------------------------------
(* Bounds of the model *)

MaxWindow == 4          \* window timestamps 1..MaxWindow
MaxTrades == 2          \* log_trade calls explored by LedgerSpec

Coins == {"BTC", "ETH"}
Sides == {"up", "down"}
Windows == 1..MaxWindow
NoSlug == <<>>
Slugs == Coins \X Windows

\* record.market_slug.rsplit("-", 1)[-1]
WindowId(slug) == slug[2]

----------------------------------------------------------------------------
(* Insertion-ordered dict (Python dict semantics) as a sequence of entries *)

DictKeys(d) == {d[i].key : i \in 1..Len(d)}

DictHas(d, k) == k \in DictKeys(d)

DictIndex(d, k) == CHOOSE i \in 1..Len(d) : d[i].key = k

DictGet(d, k) == d[DictIndex(d, k)].rec

\* d[k] = r : an existing key keeps its place, a new key goes last
DictSet(d, k, r) ==
    IF DictHas(d, k)
    THEN [i \in 1..Len(d) |-> IF d[i].key = k THEN [key |-> k, rec |-> r] ELSE d[i]]
    ELSE Append(d, [key |-> k, rec |-> r])

\* d.pop(k, None)
DictPop(d, k) == SelectSeq(d, LAMBDA e : e.key # k)

----------------------------------------------------------------------------
(* src/lib/trade_logger.py *)

\* the sidecar file: absent, or a JSON object (an ordered list of key/fields pairs)
NoFile == [exists |-> FALSE, data |-> <<>>]

\* f"{x:.2f}" of an amount in mills: rounded to whole cents
Fmt2(x) == IF x >= 0 THEN ((x + 5) \div 10) * 10 ELSE 0 - (((0 - x) + 5) \div 10) * 10

\* TradeRecord.trade_key : f"{self.market_slug}:{self.side}"
trade_key(slug, side) == <<slug, side>>

TradeRecord(slug, side, entry_price, bet_size_usdc, num_tokens) ==
    [market_slug |-> slug, side |-> side, entry_price |-> entry_price,
     bet_size_usdc |-> bet_size_usdc, num_tokens |-> num_tokens,
     outcome |-> "pending", payout |-> 0, pnl |-> 0]

SessionStats ==
    [total_trades |-> 0, wins |-> 0, losses |-> 0, pending |-> 0,
     total_wagered |-> 0, total_payout |-> 0, total_pnl |-> 0]

\* _save_pending: data[key] = asdict(record) for every pending record, json.dump
SavePendingSkipped(d) == pending_file
SavePending(d) ==
    [exists |-> TRUE, data |-> [i \in 1..Len(d) |-> [key |-> d[i].key, fields |-> d[i].rec]]]

\* _load_pending: self._pending_trades[key] = TradeRecord(**record_dict); stats.pending += 1
RECURSIVE LoadPendingFrom(_, _, _)
LoadPendingFrom(f, i, acc) ==
    IF i > Len(f) THEN acc
    ELSE LoadPendingFrom(f, i + 1,
            [pending |-> DictSet(acc.pending, f[i].key, f[i].fields),
             count |-> acc.count + 1])

\* a rewrite that died in open(path, "w") or in json.dump: the text on disk is empty or
\* stops before the closing brace
TornFile == [exists |-> TRUE, data |-> <<>>, torn |-> TRUE]

\* _load_pending; json.load raises on a torn file and the except clause passes
LoadPending(f) ==
    IF ~f.exists THEN [pending |-> <<>>, count |-> 0]
    ELSE IF "torn" \in DOMAIN f THEN [pending |-> <<>>, count |-> 0]
    ELSE LoadPendingFrom(f.data, 1, [pending |-> <<>>, count |-> 0])

\* _write_record: the CSV row of a resolved record
CsvRow(r) ==
    [market_slug |-> r.market_slug, side |-> r.side, entry_price |-> r.entry_price,
     bet_size_usdc |-> Fmt2(r.bet_size_usdc), num_tokens |-> r.num_tokens,
     outcome |-> r.outcome, payout |-> Fmt2(r.payout), pnl |-> Fmt2(r.pnl)]

\* _load_existing_stats: fold over the rows of the CSV
RECURSIVE LoadExistingStats(_, _, _)
LoadExistingStats(rows, i, s) ==
    IF i > Len(rows) THEN s
    ELSE LET row == rows[i] IN
         IF row.outcome = "pending" THEN LoadExistingStats(rows, i + 1, s)
         ELSE LoadExistingStats(rows, i + 1,
                [s EXCEPT !.total_trades = @ + 1,
                          !.total_wagered = @ + row.bet_size_usdc,
                          !.wins = IF row.outcome = "won" THEN @ + 1 ELSE @,
                          !.losses = IF row.outcome = "lost" THEN @ + 1 ELSE @,
                          !.total_payout = IF row.outcome = "won" THEN @ + row.payout ELSE @,
                          !.total_pnl = @ + row.pnl])

\* The ledger as one value, so that one handler can make several calls
Ledger == [pending |-> pending_trades, file |-> pending_file, rows |-> csv_rows, stats |-> stats]

\* TradeLogger.__init__ on the files left on disk
TradeLoggerInit(file, rows) ==
    LET s == LoadExistingStats(rows, 1, SessionStats)
        p == LoadPending(file)
    IN [pending |-> p.pending, file |-> file, rows |-> rows,
        stats |-> [s EXCEPT !.pending = @ + p.count]]

\* TradeLogger.log_trade
log_trade(L, slug, side, entry_price, bet_size_usdc, num_tokens) ==
    LET record == TradeRecord(slug, side, entry_price, bet_size_usdc, num_tokens)
        p == DictSet(L.pending, trade_key(slug, side), record)
    IN [pending |-> p,
        file |-> SavePending(p),
        rows |-> L.rows,
        stats |-> [L.stats EXCEPT !.total_trades = @ + 1,
                                  !.pending = @ + 1,
                                  !.total_wagered = @ + bet_size_usdc]]

\* log_outcome lines 290-292: the resolved record
ResolvedRecordNoStake(old, won, payout) ==
    [old EXCEPT !.outcome = IF won THEN "won" ELSE "lost", !.payout = payout, !.pnl = payout]
ResolvedRecord(old, won, payout) ==
    [old EXCEPT !.outcome = IF won THEN "won" ELSE "lost",
                !.payout = payout,
                !.pnl = payout - old.bet_size_usdc]

\* log_outcome lines 290-312: the record was pending and has been popped
resolve_pending(L, k, won, payout) ==
    LET record == ResolvedRecord(DictGet(L.pending, k), won, payout)
        p == DictPop(L.pending, k)
    IN [pending |-> p,
        file |-> SavePending(p),
        rows |-> Append(L.rows, CsvRow(record)),
        stats |-> [L.stats EXCEPT !.pending = @ - 1,
                                  !.wins = IF won THEN @ + 1 ELSE @,
                                  !.total_payout = IF won THEN @ + payout ELSE @,
                                  !.losses = IF won THEN @ ELSE @ + 1,
                                  !.total_pnl = @ + record.pnl]]

\* TradeLogger.log_outcome
log_outcome_unguarded(L, slug, side, won, payout) ==
    IF DictHas(L.pending, trade_key(slug, side))
    THEN resolve_pending(L, trade_key(slug, side), won, payout)
    ELSE [L EXCEPT !.stats.pending = @ - 1,
                   !.stats.wins = IF won THEN @ + 1 ELSE @,
                   !.stats.total_payout = IF won THEN @ + payout ELSE @,
                   !.stats.losses = IF won THEN @ ELSE @ + 1,
                   !.stats.total_pnl = @ + payout]
log_outcome(L, slug, side, won, payout) ==
    IF ~DictHas(L.pending, trade_key(slug, side))
    THEN L
    ELSE resolve_pending(L, trade_key(slug, side), won, payout)

\* get_pending_for_market: (side, record) of every pending record of the slug, in dict order
get_pending_for_market(L, slug) == SelectSeq(L.pending, LAMBDA e : e.rec.market_slug = slug)

SetLedger(L) ==
    /\ pending_trades' = L.pending
    /\ pending_file' = L.file
    /\ csv_rows' = L.rows
    /\ stats' = L.stats

----------------------------------------------------------------------------
(* Values of the components a specification leaves idle *)

IdleLedger ==
    /\ pending_trades = <<>>
    /\ pending_file = NoFile
    /\ csv_rows = <<>>
    /\ stats = SessionStats

IdleWeather ==
    /\ w_positions = <<>>
    /\ w_file = NoFile
    /\ w_balance = 0
    /\ w_chain = <<>>
    /\ w_pc = "off"
    /\ w_trade = <<>>

IdleSniper ==
    /\ coin_states = <<>>
    /\ pending_signals = {}
    /\ breaker = <<>>
    /\ config = <<>>
    /\ tick = <<>>
    /\ orders = 0
    /\ streak = {}
    /\ cash = 0
    /\ wallet = 0
    /\ edge_monitor = <<>>
    /\ sniper_stats = <<>>

IdleMaker == maker = <<>>

IdleFeed ==
    /\ binance = <<>>
    /\ clock = 0
    /\ coin_market = <<>>

----------------------------------------------------------------------------
(* LedgerSpec: a TradeLogger driven by arbitrary callers, with restarts *)

LedgerKeys == {<<<<"BTC", 1>>, "up">>, <<<<"BTC", 1>>, "down">>, <<<<"ETH", 1>>, "up">>}

\* (entry_price in cents, bet_size_usdc in mills, num_tokens):
\* 5 tokens at 0.21, and a fee-inclusive paper fill of 5 tokens at 0.50 on the 15m market
TradeInputs ==
    {[entry_price |-> 21, bet_size_usdc |-> 1050, num_tokens |-> 5],
     [entry_price |-> 50, bet_size_usdc |-> 2578, num_tokens |-> 5]}

Payouts == {0, 5000}

LedgerInit ==
    /\ IdleLedger
    /\ IdleWeather
    /\ IdleSniper
    /\ IdleMaker
    /\ IdleFeed
    /\ last = [op |-> "init", hit |-> FALSE, trades |-> 0]

\* a caller's log_trade(slug, side, t)
LedgerLogTradeCall(slug, side, t) ==
    /\ last.trades < MaxTrades
    /\ SetLedger(log_trade(Ledger, slug, side, t.entry_price, t.bet_size_usdc, t.num_tokens))
    /\ last' = [op |-> "log_trade", hit |-> DictHas(pending_trades, trade_key(slug, side)),
                trades |-> last.trades + 1]
    /\ UNCHANGED <<weather_vars, sniper_vars, sizer_vars, maker, feed_vars>>

LedgerLogTrade ==
    \E k \in LedgerKeys, t \in TradeInputs : LedgerLogTradeCall(k[1], k[2], t)

\* a caller's log_outcome(slug, side, won, payout)
LedgerLogOutcomeCall(slug, side, won, payout) ==
    /\ SetLedger(log_outcome(Ledger, slug, side, won, payout))
    /\ last' = [op |-> "log_outcome", hit |-> DictHas(pending_trades, trade_key(slug, side)),
                trades |-> last.trades]
    /\ UNCHANGED <<weather_vars, sniper_vars, sizer_vars, maker, feed_vars>>

LedgerLogOutcome ==
    \E k \in LedgerKeys, won \in BOOLEAN, payout \in Payouts :
        LedgerLogOutcomeCall(k[1], k[2], won, payout)

\* the process dies between two calls and a new TradeLogger is built on the same files
LedgerRestart ==
    /\ SetLedger(TradeLoggerInit(pending_file, csv_rows))
    /\ last' = [op |-> "restart", hit |-> FALSE, trades |-> last.trades]
    /\ UNCHANGED <<weather_vars, sniper_vars, sizer_vars, maker, feed_vars>>

LedgerNext == LedgerLogTrade \/ LedgerLogOutcome \/ LedgerRestart

LedgerSpec == LedgerInit /\ [][LedgerNext]_vars

----------------------------------------------------------------------------
(* CrashSpec: the ledger when the process can also die inside a call; every key *)
(* is traded once                                                              *)

RowKeys(rows) == {trade_key(rows[i].market_slug, rows[i].side) : i \in 1..Len(rows)}

CrashInit ==
    /\ IdleLedger
    /\ IdleWeather
    /\ IdleSniper
    /\ IdleMaker
    /\ IdleFeed
    /\ last = [op |-> "init", hit |-> FALSE, trades |-> 0]

\* log_trade for a key that is neither pending nor resolved
CrashLogTrade ==
    \E k \in LedgerKeys, t \in TradeInputs :
        /\ ~DictHas(pending_trades, k)
        /\ k \notin RowKeys(csv_rows)
        /\ LedgerLogTradeCall(k[1], k[2], t)

\* log_trade dies inside _save_pending (line 262), and the logger is built again
DiesSavingTrade ==
    \E k \in LedgerKeys, t \in TradeInputs :
        /\ last.trades < MaxTrades
        /\ ~DictHas(pending_trades, k)
        /\ k \notin RowKeys(csv_rows)
        /\ SetLedger(TradeLoggerInit(TornFile, csv_rows))
        /\ last' = [op |-> "died_saving", hit |-> FALSE, trades |-> last.trades + 1,
                    persisted |-> {j \in LedgerKeys : DictHas(LoadPending(pending_file).pending, j)}]
        /\ UNCHANGED <<weather_vars, sniper_vars, sizer_vars, maker, feed_vars>>

\* log_outcome of a pending key dies inside _save_pending (line 312), after the row
\* was appended, and the logger is built again
DiesSavingOutcome ==
    \E k \in LedgerKeys, won \in BOOLEAN, payout \in Payouts :
        /\ DictHas(pending_trades, k)
        /\ SetLedger(TradeLoggerInit(TornFile, log_outcome(Ledger, k[1], k[2], won, payout).rows))
        /\ last' = [op |-> "died_saving", hit |-> TRUE, trades |-> last.trades,
                    persisted |-> {j \in LedgerKeys : DictHas(LoadPending(pending_file).pending, j)}
                                     \ {k}]
        /\ UNCHANGED <<weather_vars, sniper_vars, sizer_vars, maker, feed_vars>>

\* log_outcome of a pending key dies between _write_record (line 309) and
\* _save_pending (line 312), and the logger is built again (explored for the first
\* row of the log)
DiesBeforeSave ==
    \E k \in LedgerKeys, won \in BOOLEAN, payout \in Payouts :
        /\ csv_rows = <<>>
        /\ DictHas(pending_trades, k)
        /\ SetLedger(TradeLoggerInit(pending_file,
                                     log_outcome(Ledger, k[1], k[2], won, payout).rows))
        /\ last' = [op |-> "died_before_save", hit |-> TRUE, trades |-> last.trades]
        /\ UNCHANGED <<weather_vars, sniper_vars, sizer_vars, maker, feed_vars>>

CrashNext ==
    \/ CrashLogTrade
    \/ LedgerLogOutcome
    \/ LedgerRestart
    \/ DiesSavingTrade
    \/ DiesSavingOutcome
    \/ DiesBeforeSave

CrashSpec == CrashInit /\ [][CrashNext]_vars

----------------------------------------------------------------------------
(* src/strategies/weather_edge.py: pending sidecar and on-chain reconciliation *)

MaxChain == 2           \* entries of the exchange's position list

Bankroll == 50000       \* config.bankroll, in mills

\* PaperPosition, the fields the ledger logic reads (tokens, price in cents, cost in mills)
PaperPosition(slug, entry_price, num_tokens, cost) ==
    [slug |-> slug, entry_price |-> entry_price, num_tokens |-> num_tokens,
     cost |-> cost, resolved |-> FALSE]

WUnresolved(positions) ==
    {positions[i].key : i \in {j \in 1..Len(positions) : ~positions[j].rec.resolved}}

RECURSIVE SumCost(_, _)
SumCost(positions, i) ==
    IF i > Len(positions) THEN 0
    ELSE (IF positions[i].rec.resolved THEN 0 ELSE positions[i].rec.cost) + SumCost(positions, i + 1)

\* WeatherEdgeBot._load_pending: positions[key] = PaperPosition(**d); balance -= existing cost
w_load_pending(positions, balance, file) ==
    IF ~file.exists THEN [positions |-> positions, balance |-> balance]
    ELSE LET loaded == LoadPendingFrom(file.data, 1, [pending |-> positions, count |-> 0]).pending
         IN [positions |-> loaded, balance |-> balance - SumCost(loaded, 1)]

\* WeatherEdgeBot._save_pending: only the unresolved positions
w_save_pending(positions) == SavePending(SelectSeq(positions, LAMBDA e : ~e.rec.resolved))

\* _reconcile_positions lines 275-282: the weather positions with size > 0, by slug
OnChainKeepsEmpty(chain) ==
    LET keep == SelectSeq(chain, LAMBDA p : p.temperature /\ p.slug # "")
        F[i \in 0..Len(keep)] ==
            IF i = 0 THEN <<>> ELSE DictSet(F[i - 1], keep[i].slug, keep[i])
    IN F[Len(keep)]
OnChain(chain) ==
    LET keep == SelectSeq(chain, LAMBDA p : p.temperature /\ p.size > 0 /\ p.slug # "")
        F[i \in 0..Len(keep)] ==
            IF i = 0 THEN <<>> ELSE DictSet(F[i - 1], keep[i].slug, keep[i])
    IN F[Len(keep)]

\* round(chain_size * chain_avg, 2), in mills
ChainCost(p) == Fmt2(p.size * p.avgPrice * 10)

Abs(x) == IF x < 0 THEN 0 - x ELSE x

\* lines 286-298: unresolved positions that are not on-chain
Phantoms(positions, on_chain) ==
    {k \in WUnresolved(positions) : ~DictHas(on_chain, k)}

PurgePhantoms(positions, on_chain) ==
    SelectSeq(positions, LAMBDA e : e.key \notin Phantoms(positions, on_chain))

\* lines 300-317: token count and cost of a tracked position follow the chain
Stale(pos, p) ==
    \/ Abs(pos.num_tokens - p.size) > 0
    \/ Abs(pos.cost - ChainCost(p)) > 50

SyncExisting(positions, on_chain) ==
    [i \in 1..Len(positions) |->
        LET e == positions[i] IN
        IF DictHas(on_chain, e.key) /\ ~e.rec.resolved /\ Stale(e.rec, DictGet(on_chain, e.key))
        THEN [key |-> e.key,
              rec |-> [e.rec EXCEPT !.num_tokens = DictGet(on_chain, e.key).size,
                                    !.entry_price = DictGet(on_chain, e.key).avgPrice,
                                    !.cost = ChainCost(DictGet(on_chain, e.key))]]
        ELSE e]

\* lines 319-367: on-chain positions missing from the tracked set are rebuilt
RecoverMissing(positions, on_chain) ==
    LET F[i \in 0..Len(on_chain)] ==
            IF i = 0 THEN positions
            ELSE LET p == on_chain[i].rec IN
                 IF DictHas(F[i - 1], p.slug) THEN F[i - 1]
                 ELSE DictSet(F[i - 1], p.slug,
                              PaperPosition(p.slug, p.avgPrice, p.size, ChainCost(p)))
    IN F[Len(on_chain)]

\* _reconcile_positions after a successful fetch of the position list
reconcile_refunds_phantoms(positions, balance, file, chain) ==
    LET on_chain == OnChain(chain)
        result == RecoverMissing(SyncExisting(PurgePhantoms(positions, on_chain), on_chain), on_chain)
        refund == SumCost(SelectSeq(positions, LAMBDA e : e.key \in Phantoms(positions, on_chain)), 1)
    IN [positions |-> result,
        balance |-> balance + refund,
        file |-> IF result # positions THEN w_save_pending(result) ELSE file]
reconcile_positions(positions, balance, file, chain) ==
    LET on_chain == OnChain(chain)
        purged == PurgePhantoms(positions, on_chain)
        synced == SyncExisting(purged, on_chain)
        result == RecoverMissing(synced, on_chain)
        changed == purged # positions \/ synced # purged \/ result # synced
    IN [positions |-> result,
        balance |-> balance,
        file |-> IF changed THEN w_save_pending(result) ELSE file]

----------------------------------------------------------------------------
(* ReconSpec: WeatherEdgeBot.__init__ in live mode, on the files of an earlier run *)

WSlugs == {"nyc-temp", "chi-temp"}

\* the records of the exchange's position list: slug, whether the title mentions
\* "temperature", size in tokens, avgPrice in cents. The wallet also holds positions
\* of the crypto strategies, whose titles do not mention temperature.
ChainEntries ==
    [slug : WSlugs, temperature : {TRUE}, size : {0, 4, 5}, avgPrice : {25}]
    \cup [slug : {"btc-updown-5m"}, temperature : {FALSE}, size : {0, 4, 5}, avgPrice : {25}]

ChainLists == UNION {[1..n -> ChainEntries] : n \in 0..MaxChain}

\* what an earlier run's _save_pending can have left: unresolved positions keyed by slug
FileEntry(slug) == [key |-> slug, fields |-> PaperPosition(slug, 25, 4, 1000)]

WFiles ==
    {NoFile, [exists |-> TRUE, data |-> <<>>]}
    \cup {[exists |-> TRUE, data |-> <<FileEntry(a)>>] : a \in WSlugs}
    \cup {[exists |-> TRUE, data |-> <<FileEntry(q[1]), FileEntry(q[2])>>] :
             q \in {r \in WSlugs \X WSlugs : r[1] # r[2]}}

ReconInit ==
    /\ IdleLedger
    /\ IdleSniper
    /\ IdleMaker
    /\ IdleFeed
    /\ w_positions = <<>>
    /\ w_balance = Bankroll
    /\ w_file \in WFiles
    /\ w_chain \in ChainLists
    /\ w_pc = "load"
    /\ w_trade = <<>>
    /\ last = [op |-> "init"]

\* __init__ line 129
WLoadPending ==
    /\ w_pc = "load"
    /\ LET r == w_load_pending(w_positions, w_balance, w_file) IN
          /\ w_positions' = r.positions
          /\ w_balance' = r.balance
    /\ w_pc' = "reconcile"
    /\ last' = [op |-> "load"]
    /\ UNCHANGED <<w_file, w_chain, w_trade, ledger_vars, sniper_vars, sizer_vars, maker, feed_vars>>

\* __init__ line 133: the positions API answered 200 on every page
WReconcile ==
    /\ w_pc = "reconcile"
    /\ LET r == reconcile_positions(w_positions, w_balance, w_file, w_chain) IN
          /\ w_positions' = r.positions
          /\ w_balance' = r.balance
          /\ w_file' = r.file
    /\ w_pc' = "balance"
    /\ last' = [op |-> "reconcile", fetched |-> TRUE,
                pre_unresolved |-> WUnresolved(w_positions), pre_balance |-> w_balance]
    /\ UNCHANGED <<w_chain, w_trade, ledger_vars, sniper_vars, sizer_vars, maker, feed_vars>>

\* __init__ line 133: the positions API failed (status != 200, or the request raised)
WReconcileFetchFailed ==
    /\ w_pc = "reconcile"
    /\ w_pc' = "balance"
    /\ last' = [op |-> "reconcile", fetched |-> FALSE,
                pre_unresolved |-> WUnresolved(w_positions), pre_balance |-> w_balance]
    /\ UNCHANGED <<w_positions, w_balance, w_file, w_chain, w_trade, ledger_vars, sniper_vars, sizer_vars, maker, feed_vars>>

\* __init__ lines 137-151: the balance is replaced by the exchange's, or by 0
WSyncBalance ==
    /\ w_pc = "balance"
    /\ \E real_bal \in {-1, 15000} :
          w_balance' = IF real_bal # -1 THEN real_bal ELSE 0
    /\ w_pc' = "run"
    /\ last' = [op |-> "balance"]
    /\ UNCHANGED <<w_positions, w_file, w_chain, w_trade, ledger_vars, sniper_vars, sizer_vars, maker, feed_vars>>

\* the process is restarted on the files it left
WRestart ==
    /\ w_pc = "run"
    /\ w_positions' = <<>>
    /\ w_balance' = Bankroll
    /\ w_pc' = "load"
    /\ last' = [op |-> "restart"]
    /\ UNCHANGED <<w_file, w_chain, w_trade, ledger_vars, sniper_vars, sizer_vars, maker, feed_vars>>

ReconNext == WLoadPending \/ WReconcile \/ WReconcileFetchFailed \/ WSyncBalance \/ WRestart

ReconSpec == ReconInit /\ [][ReconNext]_vars

----------------------------------------------------------------------------
(* LiveTradeSpec: WeatherEdgeBot.run in live mode: execute_live_trade for the *)
(* trades evaluate_opportunity returns, one after the other                  *)

\* what evaluate_opportunity returns: a market without a position yet (line 593),
\* 4 or 8 tokens at 0.25, a cost within the balance (lines 694-697)
WTrades == [slug : WSlugs, num_tokens : {4, 8}]

trade_cost(trade) == trade.num_tokens * 250

\* execute_live_trade lines 783-806: the position is recorded, paid and saved
pre_record(positions, balance, trade) ==
    LET recorded == DictSet(positions, trade.slug,
                            PaperPosition(trade.slug, 25, trade.num_tokens, trade_cost(trade)))
    IN [positions |-> recorded,
        balance |-> balance - trade_cost(trade),
        file |-> w_save_pending(recorded)]

rollback_keeping_file(positions, balance, file, trade) ==
    [positions |-> DictPop(positions, trade.slug),
     balance |-> balance + trade_cost(trade),
     file |-> file]

\* lines 816-834, ROLLBACK: the order raised or was rejected
rollback(positions, balance, file, trade) ==
    LET popped == DictPop(positions, trade.slug) IN
    [positions |-> popped,
     balance |-> balance + trade_cost(trade),
     file |-> w_save_pending(popped)]

MaxWBalance == 20000        \* settlements are explored while the balance stays within it

\* settle_positions lines 911-946 for the positions in dict order: a position whose
\* market Gamma reports closed is resolved, a winning one pays 1.00 per token
RECURSIVE settle_each(_, _, _, _)
settle_each(positions, balance, i, winners) ==
    IF i > Len(positions) THEN [positions |-> positions, balance |-> balance]
    ELSE LET pos == positions[i].rec
             winner == winners[positions[i].key]
         IN IF pos.resolved \/ winner = "none"
            THEN settle_each(positions, balance, i + 1, winners)
            ELSE settle_each([positions EXCEPT ![i].rec.resolved = TRUE],
                             IF winner = "Yes" THEN balance + pos.num_tokens * 1000 ELSE balance,
                             i + 1, winners)

\* settle_positions: resolved positions leave the dict and the store (lines 951-956;
\* the balance the exchange reports after redeem_all is the balance computed here)
settle_positions(positions, balance, file, winners) ==
    LET r == settle_each(positions, balance, 1, winners)
        kept == SelectSeq(r.positions, LAMBDA e : ~e.rec.resolved)
    IN IF r.positions = positions
       THEN [positions |-> positions, balance |-> balance, file |-> file]
       ELSE [positions |-> kept, balance |-> r.balance, file |-> w_save_pending(kept)]

\* __init__ is over: no file of an earlier run, the exchange's balance is in
LiveTradeInit ==
    /\ IdleLedger
    /\ IdleSniper
    /\ IdleMaker
    /\ IdleFeed
    /\ w_positions = <<>>
    /\ w_balance \in {3000, 15000}
    /\ w_file = NoFile
    /\ w_chain = <<>>
    /\ w_pc = "run"
    /\ w_trade = <<>>
    /\ last = [op |-> "init"]

\* execute_live_trade up to the awaited place_order
WPreRecord(trade) ==
    /\ w_pc = "run"
    /\ ~DictHas(w_positions, trade.slug)
    /\ trade_cost(trade) <= w_balance
    /\ LET r == pre_record(w_positions, w_balance, trade) IN
          /\ w_positions' = r.positions
          /\ w_balance' = r.balance
          /\ w_file' = r.file
    /\ w_trade' = trade
    /\ w_pc' = "order"
    /\ last' = [op |-> "pre_record", balance |-> w_balance, positions |-> w_positions]
    /\ UNCHANGED <<w_chain, ledger_vars, sniper_vars, sizer_vars, maker, feed_vars>>

\* place_order raised, returned a rejection, or returned the fill
WOrderReturns(outcome) ==
    /\ w_pc = "order"
    /\ IF outcome = "filled"
       THEN UNCHANGED <<w_positions, w_balance, w_file>>
       ELSE LET r == rollback(w_positions, w_balance, w_file, w_trade) IN
               /\ w_positions' = r.positions
               /\ w_balance' = r.balance
               /\ w_file' = r.file
    /\ w_trade' = <<>>
    /\ w_pc' = "run"
    /\ last' = [op |-> "place_order", outcome |-> outcome, trade |-> w_trade,
                balance |-> last.balance, positions |-> last.positions]
    /\ UNCHANGED <<w_chain, ledger_vars, sniper_vars, sizer_vars, maker, feed_vars>>

\* run lines 1080-1082: the settlement check of a cycle
WSettle(winners) ==
    /\ w_pc = "run"
    /\ LET r == settle_positions(w_positions, w_balance, w_file, winners) IN
          /\ r.balance <= MaxWBalance
          /\ w_positions' = r.positions
          /\ w_balance' = r.balance
          /\ w_file' = r.file
    /\ last' = [op |-> "settle_positions"]
    /\ UNCHANGED <<w_chain, w_trade, w_pc, ledger_vars, sniper_vars, sizer_vars, maker, feed_vars>>

LiveTradeNext ==
    \/ \E trade \in WTrades : WPreRecord(trade)
    \/ \E outcome \in {"raised", "rejected", "filled"} : WOrderReturns(outcome)
    \/ \E winners \in [WSlugs -> {"none", "Yes", "No"}] : WSettle(winners)

LiveTradeSpec == LiveTradeInit /\ [][LiveTradeNext]_vars

----------------------------------------------------------------------------
(* src/strategies/momentum_sniper.py: the execution engine, live mode       *)
(* (config.observe_only = False).  Market data (fair value, asks, Kelly     *)
(* size) are inputs of each step.  The wallet is moved by the engine's own  *)
(* fills only (no deposit, no redemption within the windows explored), so a *)
(* balance query of _tick, answered or not, leaves self._balance as it is;  *)
(* SizerSpec explores the other answers.  The monitor is off (enable_cusum  *)
(* off) except in RolloverSpec.                                             *)

MaxOrders == 2              \* place_order calls explored by Spec and OrphanSpec
max_consecutive_losses == 2 \* config.max_consecutive_losses (0 disables the breaker)

bankroll == 20000           \* SniperConfig.bankroll, in mills
MinOrderTokens == 5         \* Polymarket minimum order size
BuyPrice == 50              \* round(entry_price, 2), in cents
NoWindow == 0               \* _last_loss_window = ""
BootWindow == 3             \* the window that is active when start() runs

\* _execute_snipe lines 1045-1065, num_tokens after sizing: exactly the minimum in
\* min_size_mode, else the Kelly size, which is the minimum or above it
OrderSizes(min_size_mode) ==
    IF min_size_mode THEN {MinOrderTokens} ELSE {MinOrderTokens, 2 * MinOrderTokens}

Other(side) == IF side = "up" THEN "down" ELSE "up"

CoinMarketState(coin) ==
    [coin |-> coin, current_slug |-> NoSlug, startup_slug |-> NoSlug,
     up_tokens |-> 0, down_tokens |-> 0, last_fail_time |-> {}]

\* CoinMarketState.has_up_position / has_down_position
has_position(state, side) ==
    IF side = "up" THEN state.up_tokens > 0 ELSE state.down_tokens > 0

\* CoinMarketState.reset_positions
reset_positions(state) ==
    [state EXCEPT !.up_tokens = 0, !.down_tokens = 0, !.last_fail_time = {}]

\* PendingSignal; its dict key f"{coin}:{side}:{slug}" is the record itself.  The
\* order of the dict only fixes the order in which ready signals are looked at:
\* the model keeps the set of entries and explores every order
PendingSignal(coin, side, slug) == [coin |-> coin, side |-> side, market_slug |-> slug]

\* _find_opportunities lines 846-853: the coin's market may be traded
TradableIgnoringStartup(state) == state.current_slug # NoSlug
Tradable(state) ==
    /\ state.current_slug # NoSlug
    /\ ~(state.startup_slug = NoSlug \/ state.current_slug = state.startup_slug)

find_opportunities_ignoring_cooldown(states, tripped) ==
    IF tripped THEN {}
    ELSE {p \in Coins \X Sides :
            LET state == states[p[1]] side == p[2] IN
            /\ Tradable(state)
            /\ ~has_position(state, side)
            /\ ~has_position(state, Other(side))}

find_opportunities_pyramiding(states, tripped) ==
    IF tripped THEN {}
    ELSE {p \in Coins \X Sides :
            LET state == states[p[1]] side == p[2] IN
            /\ Tradable(state)
            /\ side \notin state.last_fail_time
            /\ ~has_position(state, Other(side))}

\* _find_opportunities: the (coin, side) pairs that pass every check on the
\* engine's own state; the checks on market data pick among them
find_opportunities(states, tripped) ==
    IF tripped THEN {}
    ELSE {p \in Coins \X Sides :
            LET state == states[p[1]] side == p[2] IN
            /\ Tradable(state)
            /\ ~has_position(state, side)
            /\ side \notin state.last_fail_time
            /\ ~has_position(state, Other(side))}

\* the lists _find_opportunities can return, as sets (sorted by edge: any order): at
\* most one side per coin (both sides of one coin clear min_edge in the same scan
\* only when ask_up + ask_down < 1 - 2 * (min_edge + fee))
Opportunities(S) ==
    {Q \in SUBSET S : \A p, q \in Q : p[1] = q[1] => p = q}

count_outcome_clearing_on_win(b, side_won, window_id) ==
    IF side_won
    THEN [consecutive_loss_windows |-> 0, last_loss_window |-> NoWindow, tripped |-> FALSE]
    ELSE LET n == IF window_id # b.last_loss_window
                  THEN b.consecutive_loss_windows + 1
                  ELSE b.consecutive_loss_windows
         IN [consecutive_loss_windows |-> n,
             last_loss_window |-> window_id,
             tripped |-> b.tripped \/ (max_consecutive_losses > 0 /\ n >= max_consecutive_losses)]

\* lines 1270-1284 and 1331-1344: the breaker's reaction to one settled record
count_outcome(b, side_won, window_id) ==
    IF side_won
    THEN [b EXCEPT !.consecutive_loss_windows = 0, !.last_loss_window = NoWindow]
    ELSE LET n == IF window_id # b.last_loss_window
                  THEN b.consecutive_loss_windows + 1
                  ELSE b.consecutive_loss_windows
         IN [consecutive_loss_windows |-> n,
             last_loss_window |-> window_id,
             tripped |-> b.tripped \/ (max_consecutive_losses > 0 /\ n >= max_consecutive_losses)]

\* the window ids of the losing records settled since the last winning record
streak_after(s, side_won, window_id) == IF side_won THEN {} ELSE s \cup {window_id}

cusum_threshold == 500      \* SniperConfig.cusum_threshold = 5.0
cusum_target_wr == 63       \* SniperConfig.cusum_target_wr = 0.63

Min(a, b) == IF a <= b THEN a ELSE b
Max(a, b) == IF a >= b THEN a ELSE b

\* EdgeMonitor.__init__
EdgeMonitor == [cusum |-> 0, alarm |-> FALSE]

\* EdgeMonitor.record (the name record is taken by the ledger records below); the
\* sums of 0.63 and -0.37 reached within MaxSettled settlements never land on the
\* threshold, so rounding does not decide the alarm
monitor_record(monitor, won) ==
    LET cusum == Max(0, monitor.cusum + (cusum_target_wr - (IF won THEN 100 ELSE 0)))
    IN [cusum |-> cusum, alarm |-> cusum >= cusum_threshold]

\* SniperStats(): the counters read by the sizer
SniperStats == [wins |-> 0, losses |-> 0]

record_outcome_on_a_win(st, monitor, won) ==
    [stats |-> IF won THEN [st EXCEPT !.wins = @ + 1] ELSE st,
     monitor |-> IF monitor # <<>> /\ won THEN monitor_record(monitor, won) ELSE monitor]

\* _periodic_settle lines 1269-1295 and _handle_market_change lines 1332-1352:
\* the counters and the monitor after one settled record
record_outcome(st, monitor, won) ==
    [stats |-> IF won THEN [st EXCEPT !.wins = @ + 1] ELSE [st EXCEPT !.losses = @ + 1],
     monitor |-> IF monitor # <<>> THEN monitor_record(monitor, won) ELSE monitor]

\* one record settled against the Gamma outcome of its market: the ledger, the
\* breaker, the session counters and the monitor
settle_record(S, record, winning_side) ==
    LET side_won == (record.side = winning_side)
        payout == IF side_won THEN record.num_tokens * 1000 ELSE 0
        r == record_outcome(S.st, S.m, side_won)
    IN [L |-> log_outcome(S.L, record.market_slug, record.side, side_won, payout),
        b |-> count_outcome(S.b, side_won, WindowId(record.market_slug)),
        streak |-> streak_after(S.streak, side_won, WindowId(record.market_slug)),
        st |-> r.stats,
        m |-> r.monitor]

\* _periodic_settle lines 1241-1304: list(pending.items()) in dict order; T is the
\* engine after the record at i (bound as a value, so that it is computed once)
RECURSIVE settle_all(_, _, _, _)
settle_all(S, items, i, gamma) ==
    IF i > Len(items) THEN S
    ELSE LET record == items[i].rec IN
         IF gamma[record.market_slug] = "none"
         THEN settle_all(S, items, i + 1, gamma)
         ELSE CHOOSE out \in {settle_all(T, items, i + 1, gamma) :
                                T \in {settle_record(S, record, gamma[record.market_slug])}} : TRUE

periodic_settle_never(S, gamma) == S

periodic_settle(S, gamma) == settle_all(S, S.L.pending, 1, gamma)

Engine == [L |-> Ledger, b |-> breaker, streak |-> streak, st |-> sniper_stats, m |-> edge_monitor]

SetEngine(S) ==
    /\ SetLedger(S.L)
    /\ breaker' = S.b
    /\ streak' = S.streak
    /\ sniper_stats' = S.st
    /\ edge_monitor' = S.m

\* SniperConfig defaults; probabilities and prices in cents, volatility in hundredths,
\* edges and fees in 1e-8 dollars (exact: no rounding in taker_fee_per_token)
min_edge == 5000000
min_fair_value == 50
max_entry_price == 85
min_entry_price == 2
max_volatility == 50

\* TAKER_FEE_RATES["15m"] in 1e-4
TakerFeeRate == 624

\* taker_fee_per_token(price, "15m") = price * (1 - price) * fee_rate
taker_fee_per_token(price) == price * (100 - price) * TakerFeeRate

\* lines 920-924 and 1446-1448: net edge = fair value - buy price - taker fee
net_edge(q) == (q.fair_prob - q.best_ask) * 1000000 - taker_fee_per_token(q.best_ask)

\* what the engine reads of the market when it decides on an order: the fair value
\* of the side, the best ask of the side and the realised volatility of the coin
Quotes == [fair_prob : {55, 60}, best_ask : {BuyPrice}, volatility : {40, 60}]

\* _find_opportunities lines 873-950 on the market data: volatility filter, ask in
\* (0, 1), structural price filters, edge, fair value confidence filter
find_opportunities_accepts(q) ==
    /\ ~(max_volatility > 0 /\ q.volatility > max_volatility)
    /\ ~(q.best_ask <= 0 \/ q.best_ask >= 100)
    /\ ~(q.best_ask > max_entry_price)
    /\ ~(q.best_ask < min_entry_price)
    /\ net_edge(q) >= min_edge
    /\ ~(q.fair_prob < min_fair_value)

\* _process_pending_signals lines 1441-1463 on the market data read at confirmation
process_pending_signals_accepts(q) ==
    /\ ~(q.best_ask <= 0 \/ q.best_ask >= 100)
    /\ net_edge(q) >= min_edge

NoQuote == [fair_prob |-> 0, best_ask |-> 0, volatility |-> 0]

NoOrder == [coin |-> "", side |-> "", num_tokens |-> 0, quote |-> NoQuote]

TickIdle == [pc |-> "idle", path |-> "none", queue |-> {}, expired |-> {}, fly |-> NoOrder]

\* the market of the slug has ended: it ended before the boot, or its coin has moved on
Closed(states, slug) ==
    \/ WindowId(slug) < BootWindow
    \/ /\ states[slug[1]].current_slug # NoSlug
       /\ WindowId(slug) < WindowId(states[slug[1]].current_slug)

\* what gamma.get_market_by_slug / parse_prices answer in one pass for the markets
\* of the pending records: a winner (price > 0.9) only for a market that has ended
GammaReports(pending, states) ==
    LET slugs == {pending[i].rec.market_slug : i \in 1..Len(pending)} IN
    {g \in [slugs -> {"none", "up", "down"}] :
        \A slug \in slugs : g[slug] # "none" => Closed(states, slug)}

\* the pending records a previous session can leave behind: 5 tokens bought at 0.50
Orphan(slug, side) ==
    [key |-> trade_key(slug, side),
     fields |-> TradeRecord(slug, side, BuyPrice, BuyPrice * 10 * MinOrderTokens, MinOrderTokens)]

OrphanFile ==
    [exists |-> TRUE,
     data |-> <<Orphan(<<"BTC", BootWindow - 2>>, "up"), Orphan(<<"ETH", BootWindow - 2>>, "up"),
                Orphan(<<"BTC", BootWindow - 1>>, "up")>>]

\* start() lines 527-558: the manager of BTC finds the market of window w, which
\* becomes the startup market; the manager of ETH finds none yet
boot_states(w) ==
    [c \in Coins |->
        IF c = "BTC"
        THEN [CoinMarketState(c) EXCEPT !.current_slug = <<c, w>>, !.startup_slug = <<c, w>>]
        ELSE CoinMarketState(c)]

\* start(): the ledger is loaded from the files on disk (the orphans that
\* _resolve_orphaned_trades found unresolved stay pending); BTC is on its boot
\* market; ETH is discovered by a later market change (at once, which is the boot
\* with both coins found, or in a later window)
start_with(file, min_size_mode, w, enable_cusum) ==
    /\ LET L == TradeLoggerInit(file, <<>>) IN
          /\ pending_trades = L.pending
          /\ pending_file = L.file
          /\ csv_rows = L.rows
          /\ stats = L.stats
    /\ IdleWeather
    /\ IdleMaker
    /\ IdleFeed
    /\ config \in [confirm_gap : BOOLEAN, min_size_mode : {min_size_mode}]
    /\ coin_states = boot_states(w)
    /\ pending_signals = {}
    /\ breaker = [consecutive_loss_windows |-> 0, last_loss_window |-> NoWindow, tripped |-> FALSE]
    /\ tick = TickIdle
    /\ orders = 0
    /\ streak = {}
    /\ cash = bankroll
    /\ wallet = 0
    /\ edge_monitor = IF enable_cusum THEN EdgeMonitor ELSE <<>>
    /\ sniper_stats = SniperStats
    /\ last = [op |-> "start"]

\* start() with the defaults of the monitor (enable_cusum off)
start_on(file, min_size_mode, w) == start_with(file, min_size_mode, w, FALSE)

\* start() in window BootWindow
start(file, min_size_mode) == start_on(file, min_size_mode, BootWindow)

\* a first run in min_size_mode: no ledger files yet
Init == start(NoFile, TRUE)

\* a restart with Kelly sizing over the pending records of the previous session
OrphanInit == start(OrphanFile, FALSE)

(* _tick is a coroutine: it runs without interruption up to the next awaited   *)
(* place_order.  The operators below give every way a stretch of _tick can    *)
(* end, as [tick, signals, orders]: back to sleep (pc = "idle") or suspended  *)
(* in place_order (pc = "order") with the rest of its loop still to run.      *)

Sleeping(signals, n_orders) == [tick |-> TickIdle, signals |-> signals, orders |-> n_orders]

\* _execute_snipe lines 1040-1085: sizing passed, the first place_order is awaited
\* the market data is the data the caller decided on: the opportunity of the scan
\* (immediate path) or the re-check of the signal (signal path)
execute_snipe(coin, side, path, rest, expired, signals, n_orders) ==
    {[tick |-> [pc |-> "order", path |-> path, queue |-> rest, expired |-> expired,
                fly |-> [coin |-> coin, side |-> side, num_tokens |-> x[1], quote |-> x[2]]],
      signals |-> signals,
      orders |-> n_orders + 1] :
        x \in {m \in OrderSizes(config.min_size_mode) :
                 n_orders + (IF m > MinOrderTokens THEN 2 ELSE 1) <= MaxOrders}
              \X {q \in Quotes : IF path = "signal" THEN process_pending_signals_accepts(q)
                                 ELSE find_opportunities_accepts(q)}}

\* _tick lines 1507-1530, immediate execution: the list ends, the capital is out
\* (break), sizing turns opportunities down, or an order is placed for one of them
\* with the rest of the list still to come
execute_opportunities(queue, signals, n_orders) ==
    {Sleeping(signals, n_orders)}
    \cup UNION {execute_snipe(x[1][1], x[1][2], "immediate", x[2], {}, signals, n_orders) :
                  x \in {y \in queue \X SUBSET queue : y[1] \notin y[2]}}

\* lines 1512-1528: queue every opportunity that has no signal yet
queue_signals(signals, opps, states) ==
    signals \cup {PendingSignal(opp[1], opp[2], states[opp[1]].current_slug) : opp \in opps}

\* _tick lines 1486-1530: balance check, _find_opportunities, then queue or execute
scan(states, tripped, signals, n_orders, gap) ==
    {Sleeping(signals, n_orders)}
    \cup UNION {IF gap
                THEN {Sleeping(queue_signals(signals, opps, states), n_orders)}
                ELSE execute_opportunities(opps, signals, n_orders) :
                    opps \in Opportunities(find_opportunities(states, tripped))}

\* _process_pending_signals lines 1428-1472 over the snapshot of ready signals:
\* a signal is dropped (market changed, no fair value, no ask, edge gone, sizing)
\* or executed with the rest of the snapshot still to come; after the last one the
\* expired keys are popped and _tick goes on
process_pending_signals(queue, expired, states, tripped, signals, n_orders) ==
    scan(states, tripped, signals \ expired, n_orders, TRUE)
    \cup UNION {execute_snipe(x[1].coin, x[1].side, "signal", x[2], expired, signals, n_orders) :
                  x \in {y \in queue \X SUBSET queue :
                            /\ y[1] \notin y[2]
                            /\ states[y[1].coin].current_slug = y[1].market_slug}}

\* _tick lines 1482-1530 after _periodic_settle; the ready signals are those whose
\* confirm_at has passed
tick_after_settle(states, tripped, signals, n_orders, gap) ==
    IF gap /\ signals # {}
    THEN UNION {process_pending_signals(ready, ready, states, tripped, signals, n_orders) :
                    ready \in SUBSET signals}
    ELSE scan(states, tripped, signals, n_orders, gap)

SetTick(r) ==
    /\ tick' = r.tick
    /\ pending_signals' = r.signals
    /\ orders' = r.orders

\* _tick from the sleep of run() up to its first await or its end; a
\* _periodic_settle within 30 s of the last pass is a pass where Gamma reports nothing
Tick(gamma) ==
    /\ tick.pc = "idle"
    /\ \E S \in {periodic_settle(Engine, gamma)} :
          /\ SetEngine(S)
          /\ \E r \in tick_after_settle(coin_states, S.b.tripped, pending_signals, orders,
                                        config.confirm_gap) : SetTick(r)
    /\ UNCHANGED <<weather_vars, cash, wallet, maker, feed_vars, coin_states, config, last>>

after_order_tracking_live(states, L, bal, coin, side, num_tokens, result) ==
    IF result \in {"filled", "live"}
    THEN [states |-> [states EXCEPT ![coin] =
                        IF side = "up" THEN [@ EXCEPT !.up_tokens = @ + num_tokens]
                        ELSE [@ EXCEPT !.down_tokens = @ + num_tokens]],
          L |-> log_trade(L, states[coin].current_slug, side, BuyPrice,
                          BuyPrice * 10 * num_tokens, num_tokens),
          balance |-> bal - BuyPrice * 10 * num_tokens]
    ELSE [states |-> [states EXCEPT ![coin].last_fail_time = @ \cup {side}],
          L |-> L,
          balance |-> bal]

\* _execute_snipe lines 1107-1189: the balance, the position and the ledger after the
\* last place_order (actual_cost = buy_price * num_tokens)
after_order(states, L, bal, coin, side, num_tokens, result) ==
    IF result = "filled"
    THEN [states |-> [states EXCEPT ![coin] =
                        IF side = "up" THEN [@ EXCEPT !.up_tokens = @ + num_tokens]
                        ELSE [@ EXCEPT !.down_tokens = @ + num_tokens]],
          L |-> log_trade(L, states[coin].current_slug, side, BuyPrice,
                          BuyPrice * 10 * num_tokens, num_tokens),
          balance |-> bal - BuyPrice * 10 * num_tokens]
    ELSE [states |-> [states EXCEPT ![coin].last_fail_time = @ \cup {side}],
          L |-> L,
          balance |-> bal]

fok_fallback_at_any_size(result, num_tokens) == result = "failed"

\* line 1089: if not result.success and num_tokens > 5
fok_fallback(result, num_tokens) == result = "failed" /\ num_tokens > MinOrderTokens

\* the awaited place_order returns: FOK fallback (a second place_order at the minimum
\* size), or the rest of _execute_snipe and of _tick up to the next await
OrderReturns(result) ==
    /\ tick.pc = "order"
    /\ IF fok_fallback(result, tick.fly.num_tokens)
       THEN /\ orders' = orders + 1
            /\ tick' = [tick EXCEPT !.fly.num_tokens = MinOrderTokens]
            /\ UNCHANGED <<ledger_vars, coin_states, pending_signals, cash>>
       ELSE LET a == after_order(coin_states, Ledger, cash, tick.fly.coin, tick.fly.side,
                                 tick.fly.num_tokens, result)
            IN /\ coin_states' = a.states
               /\ SetLedger(a.L)
               /\ cash' = a.balance
               /\ \E r \in (IF tick.path = "signal"
                            THEN process_pending_signals(tick.queue, tick.expired, a.states,
                                                         breaker.tripped, pending_signals, orders)
                            ELSE execute_opportunities(tick.queue, pending_signals, orders)) :
                      SetTick(r)
    /\ UNCHANGED <<weather_vars, wallet, edge_monitor, sniper_stats, maker, feed_vars, breaker, config, streak, last>>

\* _handle_market_change lines 1313-1360: immediate settlement of the old market
RECURSIVE settle_market(_, _, _, _)
settle_market(S, items, i, winning_side) ==
    IF i > Len(items) THEN S
    ELSE settle_market(settle_record(S, items[i].rec, winning_side), items, i + 1, winning_side)

drop_signals_of_every_coin(signals, coin) == {}

\* _handle_market_change lines 1373-1376: the signals whose key starts with the coin
\* and a colon are popped
drop_signals(signals, coin) == {sig \in signals : sig.coin # coin}

\* _handle_market_change(coin, old_slug, new_slug), called by the market manager while
\* _tick sleeps or awaits; winning_side is the answer of _determine_winner (one query)
handle_market_change(coin, new_slug, winning_side) ==
    /\ LET state == coin_states[coin]
           old_slug == state.current_slug
       IN /\ IF state.up_tokens > 0 \/ state.down_tokens > 0
             THEN IF winning_side # "none"
                  THEN SetEngine(settle_market(Engine, get_pending_for_market(Ledger, old_slug),
                                               1, winning_side))
                  ELSE UNCHANGED <<ledger_vars, breaker, streak, sniper_stats, edge_monitor>>
             ELSE /\ winning_side = "none"
                  /\ UNCHANGED <<ledger_vars, breaker, streak, sniper_stats, edge_monitor>>
          /\ coin_states' = [coin_states EXCEPT ![coin] =
                [reset_positions(state) EXCEPT
                    !.startup_slug = IF @ = NoSlug THEN new_slug ELSE @,
                    !.current_slug = new_slug]]
    /\ pending_signals' = drop_signals(pending_signals, coin)
    /\ UNCHANGED <<weather_vars, cash, wallet, maker, feed_vars, config, tick, orders, last>>

\* the markets of all coins follow the wall clock: a manager that switches, or that
\* discovers its first market, lands on the window the other managers are on or on
\* the one after it
OnTheClock(coin, w) ==
    \A other \in Coins \ {coin} :
        coin_states[other].current_slug # NoSlug =>
            /\ w >= WindowId(coin_states[other].current_slug)
            /\ w <= WindowId(coin_states[other].current_slug) + 1

MarketChange ==
    \E coin \in Coins, w \in BootWindow..MaxWindow, winning_side \in {"none", "up", "down"} :
        /\ OnTheClock(coin, w)
        /\ coin_states[coin].current_slug # NoSlug =>
               w = WindowId(coin_states[coin].current_slug) + 1
        /\ handle_market_change(coin, <<coin, w>>, winning_side)

\* 60 seconds pass after a failed order (line 902)
CooldownElapses(coin, side) ==
    /\ side \in coin_states[coin].last_fail_time
    /\ coin_states' = [coin_states EXCEPT ![coin].last_fail_time = @ \ {side}]
    /\ UNCHANGED <<ledger_vars, weather_vars, sizer_vars, maker, feed_vars, pending_signals, breaker,
                   config, tick, orders, streak, last>>

Next ==
    \/ \E gamma \in GammaReports(pending_trades, coin_states) : Tick(gamma)
    \/ \E result \in {"filled", "live", "failed"} : OrderReturns(result)
    \/ MarketChange
    \/ \E coin \in Coins, side \in Sides : CooldownElapses(coin, side)

Spec == Init /\ [][Next]_vars

OrphanSpec == OrphanInit /\ [][Next]_vars

\* a first run with the defaults: Kelly sizing (min_size_mode off) and immediate
\* execution (confirm_gap = 0)
KellyInit ==
    /\ start(NoFile, FALSE)
    /\ ~config.confirm_gap

KellySpec == KellyInit /\ [][Next]_vars

\* a first run in min_size_mode with immediate execution and the CUSUM monitor
\* on that starts one window earlier, so that a market traded by this session
\* rolls over to its successor
RolloverInit ==
    /\ start_with(NoFile, TRUE, BootWindow - 1, TRUE)
    /\ ~config.confirm_gap

RolloverSpec == RolloverInit /\ [][Next]_vars

\* a tick at which Gamma has the outcome of every market that has ended
SettlingTick ==
    \E gamma \in GammaReports(pending_trades, coin_states) :
        /\ \A slug \in DOMAIN gamma : Closed(coin_states, slug) => gamma[slug] # "none"
        /\ Tick(gamma)

\* run() lines 1692-1695 calls _tick every 0.5 s for as long as the engine runs, an
\* awaited place_order returns, and Gamma, which publishes the outcome of a market
\* 2 to 5 minutes after its end, has it at ticks that keep coming
FairRolloverSpec ==
    /\ RolloverSpec
    /\ WF_vars(\E result \in {"filled", "live", "failed"} : OrderReturns(result))
    /\ SF_vars(SettlingTick)

----------------------------------------------------------------------------
(* BootSpec: the engine from __init__ through start() into run(), over the  *)
(* pending records of an earlier session.  tick.pc is "boot" after __init__ *)
(* (the ledger is loaded, self.coin_states is empty), "managers" once       *)
(* _resolve_orphaned_trades has returned, and "idle" when start() is done.  *)
(* The managers boot on the window before the last one explored.            *)

\* _resolve_orphaned_trades lines 452-485: list(pending.items()) in dict order;
\* a record whose market Gamma does not report (no data, no side above 0.9, an
\* exception) is skipped, the others go through log_outcome
RECURSIVE resolve_orphans(_, _, _, _)
resolve_orphans(L, items, i, gamma) ==
    IF i > Len(items) THEN L
    ELSE LET record == items[i].rec
             winning_side == gamma[record.market_slug]
             side_won == (record.side = winning_side)
         IN IF winning_side = "none"
            THEN resolve_orphans(L, items, i + 1, gamma)
            ELSE resolve_orphans(log_outcome(L, record.market_slug, record.side, side_won,
                                             IF side_won THEN record.num_tokens * 1000 ELSE 0),
                                 items, i + 1, gamma)

resolve_orphaned_trades_dropping(L, gamma) ==
    [resolve_orphans(L, L.pending, 1, gamma) EXCEPT !.pending = <<>>,
                                                    !.file = SavePending(<<>>)]

resolve_orphaned_trades(L, gamma) == resolve_orphans(L, L.pending, 1, gamma)

\* what an earlier session left behind: one record, or one record per coin
BootFiles ==
    {[exists |-> TRUE, data |-> <<Orphan(<<"BTC", BootWindow - 2>>, "up")>>],
     [exists |-> TRUE, data |-> <<Orphan(<<"BTC", BootWindow - 2>>, "up"),
                                  Orphan(<<"ETH", BootWindow - 1>>, "down")>>]}

\* MomentumSniperStrategy.__init__
BootInit ==
    /\ \E file \in BootFiles :
          LET L == TradeLoggerInit(file, <<>>) IN
             /\ pending_trades = L.pending
             /\ pending_file = L.file
             /\ csv_rows = L.rows
             /\ stats = L.stats
    /\ IdleWeather
    /\ IdleMaker
    /\ IdleFeed
    /\ config \in [confirm_gap : BOOLEAN, min_size_mode : {TRUE}]
    /\ coin_states = <<>>
    /\ pending_signals = {}
    /\ breaker = [consecutive_loss_windows |-> 0, last_loss_window |-> NoWindow, tripped |-> FALSE]
    /\ tick = [TickIdle EXCEPT !.pc = "boot"]
    /\ orders = 0
    /\ streak = {}
    /\ cash = bankroll
    /\ wallet = 0
    /\ edge_monitor = <<>>
    /\ sniper_stats = SniperStats
    /\ last = [op |-> "init"]

\* start() lines 522-525
ResolveOrphans(gamma) ==
    /\ tick.pc = "boot"
    /\ SetLedger(resolve_orphaned_trades(Ledger, gamma))
    /\ tick' = [tick EXCEPT !.pc = "managers"]
    /\ last' = [op |-> "resolve_orphaned_trades", gamma |-> gamma]
    /\ UNCHANGED <<weather_vars, sizer_vars, maker, feed_vars, coin_states, pending_signals, breaker,
                   config, orders, streak>>

\* start() lines 527-565
StartManagers ==
    /\ tick.pc = "managers"
    /\ coin_states' = boot_states(MaxWindow - 1)
    /\ tick' = TickIdle
    /\ last' = [op |-> "start"]
    /\ UNCHANGED <<ledger_vars, weather_vars, sizer_vars, maker, feed_vars, pending_signals, breaker,
                   config, orders, streak>>

BootNext ==
    \/ \E gamma \in GammaReports(pending_trades, coin_states) : ResolveOrphans(gamma)
    \/ StartManagers
    \/ tick.pc \in {"idle", "order"} /\ Next

BootSpec == BootInit /\ [][BootNext]_vars

----------------------------------------------------------------------------
(* src/strategies/momentum_sniper.py: the balance, Kelly sizing and the     *)
(* CUSUM edge monitor (SizerSpec).  Probabilities and prices are in         *)
(* hundredths, money in mills (every balance a whole number of cents),      *)
(* Kelly coefficients in basis points, bet fractions in 1/100000.           *)

MaxSettled == 10            \* settlements explored by SizerSpec

min_bet_usdc == 1000        \* SniperConfig.min_bet_usdc = 1.0
max_bet_usdc == 100000      \* SniperConfig.max_bet_usdc = 100.0
max_bet_fraction == 15000   \* SniperConfig.max_bet_fraction = 0.15
kelly_fraction == 5000      \* SniperConfig.kelly_fraction = 0.50
kelly_strong == 7500        \* SniperConfig.kelly_strong = 0.75
NoBalance == -1             \* get_usdc_balance() returned None

\* _refresh_balance lines 495-497, once the 10 s rate limit has passed
refresh_balance(cached, bal) == IF bal # NoBalance THEN bal ELSE cached

\* _available_balance
available_balance(bal) == Max(0, bal)

\* math.sqrt, rounded down to a whole number
RECURSIVE isqrt_in(_, _, _)
isqrt_in(x, lo, hi) ==
    IF hi - lo <= 1 THEN lo
    ELSE LET mid == (lo + hi) \div 2
         IN IF mid * mid <= x THEN isqrt_in(x, mid, hi) ELSE isqrt_in(x, lo, mid)

isqrt(x) == isqrt_in(x, 0, 46340)

\* _wilson_lower(wins, total, z = 1.28), in thousandths.  Numerator and denominator
\* are multiplied by total: (wins + z^2/2 - z * sqrt(wins*(total-wins)/total + z^2/4))
\* / (total + z^2), with z^2 = 1.6384
wilson_lower(wins, total) ==
    IF total = 0 THEN 0
    ELSE LET centre == 10000 * wins + 8192
             denom == 10000 * total + 16384
             spread == (128 * isqrt((1000000 * wins * (total - wins)) \div total + 409600))
                           \div 10
         IN ((centre - spread) * 1000) \div denom

\* lines 738-740 and 795-797: the two-factor coefficient
base_fraction(entry_price, strong) ==
    LET price_kelly == IF entry_price >= 60 THEN kelly_strong ELSE kelly_fraction
        edge_kelly == IF strong THEN kelly_strong ELSE kelly_fraction
    IN Max(price_kelly, edge_kelly)

\* _adaptive_kelly_fraction
adaptive_kelly_fraction(entry_price, strong, monitor, st, cfg) ==
    LET decided == st.wins + st.losses
        wr_floor == wilson_lower(st.wins, decided)
        target_wr == IF cfg.enable_cusum THEN cusum_target_wr * 10 ELSE 636
    IN IF monitor # <<>> /\ monitor.alarm THEN 2500
       ELSE IF decided < 10 THEN 2500
       ELSE IF wr_floor <= target_wr - 100 THEN 2500
       ELSE IF wr_floor >= target_wr THEN base_fraction(entry_price, strong)
       ELSE 2500 + ((wr_floor - (target_wr - 100))
                        * (base_fraction(entry_price, strong) - 2500)) \div 100

\* lines 790-797: the coefficient _kelly_bet_usdc multiplies kelly_f by
fraction_of(entry_price, strong, monitor, st, cfg) ==
    IF cfg.adaptive_kelly
    THEN adaptive_kelly_fraction(entry_price, strong, monitor, st, cfg)
    ELSE base_fraction(entry_price, strong)

\* The entry prices p (two decimals) at which IEEE-754 double arithmetic evaluates
\* b = 1.0/p - 1.0 and (p*b - (1.0 - p))/b, lines 778-784, to a value above zero
\* (a few 1e-17) although the exact value is zero.  For every other pair of
\* two-decimal fair_prob and entry_price the computed sign is the exact one.
BreakEvenRoundsUp ==
    {3, 5, 6, 7, 11, 22, 30, 31, 32, 33, 38, 40, 55, 59, 62, 66, 69, 71, 76, 77,
     80, 83, 86, 88, 89, 90, 96, 97, 98}

\* lines 778-785: kelly_f > 0 as the interpreter computes it
kelly_f_positive(fair_prob, entry_price) ==
    \/ fair_prob > entry_price
    \/ fair_prob = entry_price /\ entry_price \in BreakEvenRoundsUp

\* _kelly_bet_usdc, given the coefficient and _available_balance(); b <= 0 (line 781)
\* cannot happen past the price guard.  kelly_f = (p - price)/(1 - price)
kelly_bet_usdc(fair_prob, entry_price, fraction, available) ==
    IF entry_price <= 1 \/ entry_price >= 99 \/ fair_prob <= 0 THEN 0
    ELSE IF ~kelly_f_positive(fair_prob, entry_price) THEN 0
    ELSE LET kelly_f == ((fair_prob - entry_price) * 100000) \div (100 - entry_price)
             uncapped == (kelly_f * fraction) \div 10000
             bet_fraction == IF max_bet_fraction > 0 THEN Min(uncapped, max_bet_fraction)
                             ELSE uncapped
             usdc == (bet_fraction * (available \div 10)) \div 10000
         IN IF available < min_bet_usdc THEN 0
            ELSE Min(Max(min_bet_usdc, Min(max_bet_usdc, usdc)), available)

----------------------------------------------------------------------------
(* SizerSpec: balance queries, settlements and sizing calls in any order *)

WalletAnswers == {NoBalance, 0, 2000, 1000000}
FairProbs == {0, 29, 30, 60, 95}
EntryPrices == {1, 30, 50, 60}

SizerInit ==
    /\ IdleLedger
    /\ IdleWeather
    /\ IdleMaker
    /\ IdleFeed
    /\ coin_states = <<>>
    /\ pending_signals = {}
    /\ breaker = <<>>
    /\ tick = <<>>
    /\ orders = 0
    /\ streak = {}
    /\ config \in [adaptive_kelly : BOOLEAN, enable_cusum : BOOLEAN]
    /\ cash = bankroll
    /\ wallet = 0
    /\ edge_monitor = IF config.enable_cusum THEN EdgeMonitor ELSE <<>>
    /\ sniper_stats = SniperStats
    /\ last = [op |-> "init"]

\* _refresh_balance with the exchange's answer
SizerRefresh(bal) ==
    /\ cash' = refresh_balance(cash, bal)
    /\ last' = [op |-> "refresh", bal |-> bal]
    /\ UNCHANGED <<ledger_vars, weather_vars, sniper_vars, wallet, edge_monitor, sniper_stats, maker, feed_vars>>

\* one record settles, won or lost
SizerSettle(won) ==
    /\ sniper_stats.wins + sniper_stats.losses < MaxSettled
    /\ LET r == record_outcome(sniper_stats, edge_monitor, won) IN
          /\ sniper_stats' = r.stats
          /\ edge_monitor' = r.monitor
    /\ last' = [op |-> "settle", won |-> won]
    /\ UNCHANGED <<ledger_vars, weather_vars, sniper_vars, cash, wallet, maker, feed_vars>>

\* a call of _kelly_bet_usdc(fair_prob, entry_price, strong)
SizerKelly(fair_prob, entry_price, strong) ==
    /\ LET fraction == fraction_of(entry_price, strong, edge_monitor, sniper_stats, config)
           available == available_balance(cash)
       IN last' = [op |-> "kelly", fair_prob |-> fair_prob, entry_price |-> entry_price,
                   fraction |-> fraction, available |-> available,
                   usdc |-> kelly_bet_usdc(fair_prob, entry_price, fraction, available)]
    /\ UNCHANGED <<ledger_vars, weather_vars, sniper_vars, sizer_vars, maker, feed_vars>>

SizerNext ==
    \/ \E bal \in WalletAnswers : SizerRefresh(bal)
    \/ \E won \in BOOLEAN : SizerSettle(won)
    \/ \E fair_prob \in FairProbs, entry_price \in EntryPrices, strong \in BOOLEAN :
          SizerKelly(fair_prob, entry_price, strong)

SizerSpec == SizerInit /\ [][SizerNext]_vars

----------------------------------------------------------------------------
(* src/strategies/market_maker.py: fills and the settlement at a market     *)
(* change (MakerSpec).  Quotes are MinOrderTokens tokens each; a tick is    *)
(* given the side whose resting quote left the open orders, what get_order  *)
(* answers for it, and what the fair value makes of the quotes.             *)

MaxFills == 2               \* fills explored by MakerSpec

\* self.quotes.up_order_id is None
NoOrderId == <<>>

\* QuoteState.__init__: the order ids, the quoted prices and the inventory fields
QuoteState ==
    [up_order_id |-> NoOrderId, down_order_id |-> NoOrderId,
     up_quote_price |-> 0, down_quote_price |-> 0,
     up_inventory |-> 0, down_inventory |-> 0, up_cost_basis |-> 0, down_cost_basis |-> 0,
     realized_pnl |-> 0]

\* QuoteState.has_active_quotes
has_active_quotes(q) == q.up_order_id # NoOrderId \/ q.down_order_id # NoOrderId

\* QuoteState.reset_for_new_market
reset_for_new_market(q) ==
    [q EXCEPT !.up_order_id = NoOrderId, !.down_order_id = NoOrderId,
              !.up_quote_price = 0, !.down_quote_price = 0]

\* QuoteState.record_fill
record_fill(q, side, size, usdc) ==
    IF side = "up"
    THEN [q EXCEPT !.up_inventory = @ + size, !.up_cost_basis = @ + usdc]
    ELSE [q EXCEPT !.down_inventory = @ + size, !.down_cost_basis = @ + usdc]

\* QuoteState.settle_market: winning tokens pay 1.00 each
settle_market_pnl(q, winning_side) ==
    IF winning_side = "up"
    THEN q.up_inventory * 1000 - q.up_cost_basis - q.down_cost_basis
    ELSE q.down_inventory * 1000 - q.down_cost_basis - q.up_cost_basis

settle_inventory(q, winning_side) ==
    [q EXCEPT !.realized_pnl = @ + settle_market_pnl(q, winning_side),
              !.up_inventory = 0, !.down_inventory = 0,
              !.up_cost_basis = 0, !.down_cost_basis = 0]

\* self._last_prices = {}
NoPrices == <<>>

\* self._last_prices.get(side, 0), in cents
last_price(prices, side) == IF prices = NoPrices THEN 0 ELSE prices[side]

\* TradeLogger.get_pending_slugs
get_pending_slugs(L) == {L.pending[i].rec.market_slug : i \in 1..Len(L.pending)}

\* MarketMakerStrategy._resolve_trades(slug).  The call
\* log_outcome(market_slug=slug, won=won, payout=...) of line 629 leaves out the
\* required parameter side of TradeLogger.log_outcome, so it raises TypeError before
\* the ledger is touched: raised tells whether the call was reached
resolve_trades(q, L, prices, slug) ==
    IF q.up_inventory <= 0 /\ q.down_inventory <= 0
    THEN [quotes |-> q, winning_side |-> "none", raised |-> FALSE]
    ELSE IF last_price(prices, "up") <= 0 /\ last_price(prices, "down") <= 0
    THEN [quotes |-> q, winning_side |-> "none", raised |-> FALSE]
    ELSE LET winning_side == IF last_price(prices, "up") > 50 THEN "up" ELSE "down"
         IN [quotes |-> settle_inventory(q, winning_side),
             winning_side |-> winning_side,
             raised |-> slug \in get_pending_slugs(L)]

MakerCoin == "BTC"
PriceMaps == {NoPrices, [up |-> 70, down |-> 30], [up |-> 30, down |-> 70]}
QuotePrices == {40}

MakerInit ==
    /\ IdleLedger
    /\ IdleWeather
    /\ IdleSniper
    /\ IdleFeed
    /\ maker = [quotes |-> QuoteState, last_prices |-> NoPrices,
                current_slug |-> <<MakerCoin, 1>>, market |-> 1, exchange |-> {}]
    /\ last = [op |-> "init"]

\* the id the exchange gives an order: one order per market and side rests at a time
OrderId(market, side) == <<<<MakerCoin, market>>, side>>

order_id(q, side) == IF side = "up" THEN q.up_order_id ELSE q.down_order_id

\* _check_fills lines 567-592 for the quote of side, which the exchange matched in
\* full: the fill is recorded at the quoted price and logged, the id is forgotten
maker_fill(M, L, side) ==
    LET price == IF side = "up" THEN M.quotes.up_quote_price ELSE M.quotes.down_quote_price
        filled == record_fill(M.quotes, side, MinOrderTokens, price * 10 * MinOrderTokens)
    IN [maker |-> [M EXCEPT !.quotes = IF side = "up"
                                       THEN [filled EXCEPT !.up_order_id = NoOrderId]
                                       ELSE [filled EXCEPT !.down_order_id = NoOrderId],
                            !.exchange = @ \ {order_id(M.quotes, side)}],
        L |-> log_trade(L, M.current_slug, side, price, price * 10 * MinOrderTokens,
                        MinOrderTokens)]

\* what bot.get_order answers for a quote that has left the open orders: nothing
\* (None), or the order with its status
NoDetail == "None"
OrderDetails == {NoDetail, "matched", "cancelled"}

\* _check_fills for a side whose quote is no longer among the open orders: an order
\* detail with another status than matched or filled only clears the id
check_fills(M, L, side, order_detail) ==
    IF order_detail # NoDetail /\ order_detail \notin {"matched", "filled"}
    THEN [maker |-> [M EXCEPT !.quotes = IF side = "up"
                                         THEN [@ EXCEPT !.up_order_id = NoOrderId]
                                         ELSE [@ EXCEPT !.down_order_id = NoOrderId],
                              !.exchange = @ \ {order_id(M.quotes, side)}],
          L |-> L]
    ELSE maker_fill(M, L, side)

\* _cancel_all_quotes: the exchange cancels the orders whose ids are tracked
cancel_all_quotes(M) ==
    [M EXCEPT !.exchange = @ \ {M.quotes.up_order_id, M.quotes.down_order_id},
              !.quotes.up_order_id = NoOrderId,
              !.quotes.down_order_id = NoOrderId]

\* _post_one_quote: a BUY of MinOrderTokens tokens on the manager's market rests
post_one_quote(M, side, price) ==
    IF price = 0 THEN M
    ELSE IF side = "up"
    THEN [M EXCEPT !.quotes.up_order_id = OrderId(M.market, side),
                   !.quotes.up_quote_price = price,
                   !.exchange = @ \cup {OrderId(M.market, side)}]
    ELSE [M EXCEPT !.quotes.down_order_id = OrderId(M.market, side),
                   !.quotes.down_quote_price = price,
                   !.exchange = @ \cup {OrderId(M.market, side)}]

\* _post_quotes lines 453-473: the old quotes are cancelled, then the sides with
\* enough edge and size are quoted (price 0: the side is not quoted)
post_quotes(M, up_quote, down_quote) ==
    post_one_quote(post_one_quote(cancel_all_quotes(M), "up", up_quote), "down", down_quote)

\* on_tick lines 664-688 after _check_fills: nothing to do (no requote due), the
\* quotes are pulled (expiry near, or the market nearly certain), or both sides
\* are requoted
Plans ==
    [kind : {"keep", "pull"}, up : {0}, down : {0}]
    \cup {[kind |-> "post", up |-> p, down |-> 100 - p] : p \in QuotePrices}

manage_quotes(M, plan) ==
    IF plan.kind = "pull" THEN cancel_all_quotes(M)
    ELSE IF plan.kind = "post" THEN post_quotes(M, plan.up, plan.down)
    ELSE M

\* on_tick(prices): the prices are kept, _check_fills finds the resting quote of
\* side filled, or none, and the quotes are managed
MakerTick(prices, side, order_detail, plan) ==
    LET M == IF prices # NoPrices THEN [maker EXCEPT !.last_prices = prices] ELSE maker
    IN /\ \/ /\ side = "none"
             /\ maker' = manage_quotes(M, plan)
             /\ UNCHANGED ledger_vars
          \/ /\ side # "none"
             /\ order_id(M.quotes, side) # NoOrderId
             /\ stats.total_trades < MaxFills
             /\ LET r == check_fills(M, Ledger, side, order_detail) IN
                   /\ maker' = manage_quotes(r.maker, plan)
                   /\ SetLedger(r.L)
       /\ last' = [op |-> "on_tick", order_detail |-> order_detail]
       /\ UNCHANGED <<weather_vars, sniper_vars, sizer_vars, feed_vars>>

\* on_market_change lines 698-702: the ids are forgotten; no cancel is sent
forget_quotes(q) ==
    IF has_active_quotes(q)
    THEN [q EXCEPT !.up_order_id = NoOrderId, !.down_order_id = NoOrderId]
    ELSE q

\* on_market_change(old_slug, new_slug), called by the market manager; oracle is what
\* the outcome oracle says about old_slug at that time, which the handler never asks.
\* When _resolve_trades raises, the rest of the handler (reset_for_new_market,
\* _last_prices.clear(), the new _current_slug) does not run
MakerMarketChange(oracle) ==
    /\ maker.market < MaxWindow
    /\ LET old_slug == <<MakerCoin, maker.market>>
           new_slug == <<MakerCoin, maker.market + 1>>
           r == resolve_trades(forget_quotes(maker.quotes), Ledger, maker.last_prices, old_slug)
       IN /\ maker' = IF r.raised
                      THEN [maker EXCEPT !.quotes = r.quotes, !.market = @ + 1]
                      ELSE [quotes |-> reset_for_new_market(r.quotes), last_prices |-> NoPrices,
                            current_slug |-> new_slug, market |-> maker.market + 1,
                            exchange |-> maker.exchange]
          /\ last' = [op |-> "on_market_change", winning_side |-> r.winning_side,
                      oracle |-> oracle, raised |-> r.raised]
    /\ UNCHANGED <<ledger_vars, weather_vars, sniper_vars, sizer_vars, feed_vars>>

MakerNext ==
    \/ \E prices \in PriceMaps, side \in Sides \cup {"none"}, plan \in Plans :
          \E order_detail \in IF side = "none" THEN {NoDetail} ELSE OrderDetails :
              MakerTick(prices, side, order_detail, plan)
    \/ \E oracle \in {"none", "up", "down"} : MakerMarketChange(oracle)

MakerSpec == MakerInit /\ [][MakerNext]_vars

-----------------------------------------------------------------------------
(* src/lib/fair_value.py, src/lib/binance_ws.py and _calculate_fair_value of  *)
(* the sniper (FairValueSpec).  Prices are whole dollars, volatilities are in *)
(* hundredths, probabilities in 1e-4; one coin, whose CoinState the feed      *)
(* holds from its construction on.                                            *)

MaxClock == 3               \* seconds of wall clock explored by FairValueSpec

MIN_PRICE == 100
MAX_PRICE == 9900

\* BinaryFairValue.__init__(min_vol=0.10, max_vol=2.0)
min_vol == 10
max_vol == 200

\* float("inf"), the age of a price that never arrived
Infinity == 1000000

\* CoinState of binance_ws.py: price and last_update as the dataclass creates them
CoinState == [price |-> 0, last_update |-> 0]

\* BinancePriceFeed._handle_message: an aggTrade of the coin at trade time ts
handle_message(state, price, ts) == [state EXCEPT !.price = price, !.last_update = ts]

\* BinancePriceFeed.get_price
get_price(state) == state.price

\* BinancePriceFeed.get_age
get_age(state, now) ==
    IF state.last_update = 0 THEN Infinity ELSE now - state.last_update

\* the inputs explored: spot and strike (non-positive ones included), seconds to
\* expiry (expired ones included) and volatility (0.05 is below min_vol)
Spots == {-1, 0, 96000, 97000, 97050}
Strikes == {0, 97000}
SecondsToExpiry == {-5, 0, 30, 600}
Volatilities == {5, 50}

\* normal_cdf(math.log(spot / strike) / (vol * math.sqrt(T))) for strike 97000, as
\* binary64 evaluates it, rounded to 1e-4, by <<spot, seconds_to_expiry, vol>>
NormalCdf ==
    (<<96000, 30, 10>> :> 0) @@ (<<96000, 30, 50>> :> 0) @@
    (<<96000, 600, 10>> :> 0) @@ (<<96000, 600, 50>> :> 0) @@
    (<<97000, 30, 10>> :> 5000) @@ (<<97000, 30, 50>> :> 5000) @@
    (<<97000, 600, 10>> :> 5000) @@ (<<97000, 600, 50>> :> 5000) @@
    (<<97050, 30, 10>> :> 10000) @@ (<<97050, 30, 50>> :> 8548) @@
    (<<97050, 600, 10>> :> 8814) @@ (<<97050, 600, 50>> :> 5934)

\* lines 110 and 133: the outcome once nothing can move any more
deterministic(spot, strike) ==
    IF spot > strike THEN 10000 ELSE IF spot < strike THEN 0 ELSE 5000

FairValue(fair_up, fair_down) == [fair_up |-> fair_up, fair_down |-> fair_down]

calculate_clamping_expired(spot, strike, seconds_to_expiry, volatility) ==
    LET vol == Max(min_vol, Min(max_vol, volatility))
        raw == IF seconds_to_expiry <= 0 THEN deterministic(spot, strike)
               ELSE IF spot <= 0 \/ strike <= 0 THEN 5000
               ELSE NormalCdf[<<spot, seconds_to_expiry, vol>>]
        fair_up == Max(MIN_PRICE, Min(MAX_PRICE, raw))
    IN FairValue(fair_up, Max(MIN_PRICE, Min(MAX_PRICE, 10000 - fair_up)))

\* BinaryFairValue.calculate; sigma_sqrt_t < 1e-10 (line 131) needs less than 1e-10
\* seconds to expiry at vol >= min_vol and does not occur with whole seconds
calculate(spot, strike, seconds_to_expiry, volatility) ==
    LET vol == Max(min_vol, Min(max_vol, volatility)) IN
    IF seconds_to_expiry <= 0
    THEN LET fair_up == deterministic(spot, strike) IN FairValue(fair_up, 10000 - fair_up)
    ELSE IF spot <= 0 \/ strike <= 0
    THEN FairValue(5000, 5000)
    ELSE LET fair_up == Max(MIN_PRICE, Min(MAX_PRICE, NormalCdf[<<spot, seconds_to_expiry, vol>>]))
             fair_down == Max(MIN_PRICE, Min(MAX_PRICE, 10000 - fair_up))
         IN FairValue(fair_up, fair_down)

\* _calculate_fair_value returned None
NoFairValue == <<>>

\* MomentumSniperStrategy._calculate_fair_value: the spot is whatever price the
\* feed holds (volatility: fixed_volatility or the feed's estimate)
calculate_fair_value(state, strike_price, secs, vol) ==
    LET spot == get_price(state) IN
    IF spot <= 0 \/ strike_price <= 0 THEN NoFairValue
    ELSE calculate(spot, strike_price, secs, vol)

FairValueInit ==
    /\ IdleLedger
    /\ IdleWeather
    /\ IdleSniper
    /\ IdleMaker
    /\ binance = CoinState
    /\ clock = 1
    /\ coin_market = <<>>
    /\ last = [op |-> "init"]

\* the web socket delivers a trade of the coin
HandleMessage(price) ==
    /\ binance' = handle_message(binance, price, clock)
    /\ last' = [op |-> "handle_message"]
    /\ UNCHANGED <<ledger_vars, weather_vars, sniper_vars, sizer_vars, maker, clock, coin_market>>

\* a second passes without a message
Advance ==
    /\ clock < MaxClock
    /\ clock' = clock + 1
    /\ UNCHANGED <<ledger_vars, weather_vars, sniper_vars, sizer_vars, maker, binance, coin_market, last>>

\* a scan or a confirmation asks for the fair value of the coin's market
CalculateFairValue(strike_price, secs, vol) ==
    /\ last' = [op |-> "calculate_fair_value", spot |-> get_price(binance),
                age |-> get_age(binance, clock), strike |-> strike_price,
                seconds_to_expiry |-> secs,
                fv |-> calculate_fair_value(binance, strike_price, secs, vol)]
    /\ UNCHANGED <<ledger_vars, weather_vars, sniper_vars, sizer_vars, maker, feed_vars>>

\* a call of BinaryFairValue.calculate with arbitrary inputs
Calculate(spot, strike, secs, vol) ==
    /\ last' = [op |-> "calculate", spot |-> spot, strike |-> strike,
                seconds_to_expiry |-> secs, volatility |-> vol,
                fv |-> calculate(spot, strike, secs, vol)]
    /\ UNCHANGED <<ledger_vars, weather_vars, sniper_vars, sizer_vars, maker, feed_vars>>

FairValueNext ==
    \/ \E price \in {p \in Spots : p > 0} : HandleMessage(price)
    \/ Advance
    \/ \E strike \in Strikes, secs \in SecondsToExpiry, vol \in Volatilities :
          CalculateFairValue(strike, secs, vol)
    \/ \E spot \in Spots, strike \in Strikes, secs \in SecondsToExpiry, vol \in Volatilities :
          Calculate(spot, strike, secs, vol)

FairValueSpec == FairValueInit /\ [][FairValueNext]_vars

----------------------------------------------------------------------------
(* BreakerSpec: the circuit breaker over settlements in any order *)

\* __init__ lines 425-427
Breaker == [consecutive_loss_windows |-> 0, last_loss_window |-> NoWindow, tripped |-> FALSE]

BreakerInit ==
    /\ IdleLedger
    /\ IdleWeather
    /\ IdleMaker
    /\ IdleFeed
    /\ coin_states = <<>>
    /\ pending_signals = {}
    /\ config = <<>>
    /\ tick = <<>>
    /\ orders = 0
    /\ streak = {}
    /\ cash = 0
    /\ wallet = 0
    /\ edge_monitor = <<>>
    /\ sniper_stats = SniperStats
    /\ breaker = Breaker
    /\ last = [op |-> "init"]

\* one record settles, in _periodic_settle (lines 1269-1289) or in
\* _handle_market_change (lines 1331-1349)
BreakerSettle(side_won, window_id) ==
    /\ sniper_stats.wins + sniper_stats.losses < MaxSettled
    /\ breaker' = count_outcome(breaker, side_won, window_id)
    /\ streak' = streak_after(streak, side_won, window_id)
    /\ sniper_stats' = record_outcome(sniper_stats, edge_monitor, side_won).stats
    /\ last' = [op |-> "settle", side_won |-> side_won]
    /\ UNCHANGED <<ledger_vars, weather_vars, coin_states, pending_signals, config, tick, orders,
                   cash, wallet, edge_monitor, maker, feed_vars>>

\* the process is stopped and started again
BreakerRestart ==
    /\ last.op # "restart"
    /\ breaker' = Breaker
    /\ streak' = {}
    /\ last' = [op |-> "restart"]
    /\ UNCHANGED <<ledger_vars, weather_vars, coin_states, pending_signals, config, tick, orders,
                   sizer_vars, maker, feed_vars>>

BreakerNext ==
    \/ \E side_won \in BOOLEAN, window_id \in Windows : BreakerSettle(side_won, window_id)
    \/ BreakerRestart

BreakerSpec == BreakerInit /\ [][BreakerNext]_vars

----------------------------------------------------------------------------
(* BalanceSpec: the balance the strategy tracks through the orders of its ticks *)

\* the opportunities a scan may hand to the loop of _tick: fair probability and ask
\* in cents, edge >= strong_edge or not
Candidates == [fair_prob : {60, 95}, entry_price : {10, 50}, strong : BOOLEAN]
CandidateLists == {<<>>} \cup {<<c>> : c \in Candidates}
                         \cup {<<c, d>> : c \in Candidates, d \in {[fair_prob |-> 95, entry_price |-> 10, strong |-> TRUE]}}

\* the account's USDC when start() runs
Wallets == {1500, 3000, 20000}

NoFly == <<>>
BalanceIdle == [pc |-> "idle", queue |-> <<>>, fly |-> NoFly]

\* buy_price * num_tokens, in mills
order_cost(entry_price, num_tokens) == entry_price * 10 * num_tokens

\* _execute_snipe lines 1040-1065: the tokens to order, 0 where it returns False
size_order(c, balance, monitor, st, cfg) ==
    LET available == available_balance(balance) IN
    IF ~cfg.min_size_mode
    THEN LET fraction == fraction_of(c.entry_price, c.strong, monitor, st, cfg)
             bet_usdc == kelly_bet_usdc(c.fair_prob, c.entry_price, fraction, available)
             num_tokens == bet_usdc \div (c.entry_price * 10)
         IN IF bet_usdc < min_bet_usdc \/ num_tokens < MinOrderTokens THEN 0 ELSE num_tokens
    ELSE LET bet_usdc == order_cost(c.entry_price, MinOrderTokens) IN
         IF bet_usdc < 1000 \/ bet_usdc > available THEN 0 ELSE MinOrderTokens

\* lines 1107-1114: actual_cost = buy_price * num_tokens; self._balance -= actual_cost
deduct(balance, entry_price, num_tokens) == balance - order_cost(entry_price, num_tokens)

\* the loop of _tick, lines 1504-1530, from its head to the next await or to its end
RECURSIVE tick_loop(_, _, _, _, _)
tick_loop(queue, balance, monitor, st, cfg) ==
    IF queue = <<>> \/ available_balance(balance) < min_bet_usdc THEN BalanceIdle
    ELSE LET num_tokens == size_order(Head(queue), balance, monitor, st, cfg) IN
         IF num_tokens = 0 THEN tick_loop(Tail(queue), balance, monitor, st, cfg)
         ELSE [pc |-> "order", queue |-> Tail(queue),
               fly |-> [entry_price |-> Head(queue).entry_price, num_tokens |-> num_tokens,
                        available |-> available_balance(balance), matched |-> FALSE]]

BalanceInit ==
    /\ IdleLedger
    /\ IdleWeather
    /\ IdleMaker
    /\ IdleFeed
    /\ coin_states = <<>>
    /\ pending_signals = {}
    /\ breaker = <<>>
    /\ streak = {}
    /\ orders = 0
    /\ config \in [adaptive_kelly : {FALSE}, enable_cusum : {FALSE}, min_size_mode : BOOLEAN]
    /\ tick = BalanceIdle
    /\ wallet \in Wallets
    /\ cash = wallet
    /\ edge_monitor = <<>>
    /\ sniper_stats = SniperStats
    /\ last = [op |-> "init"]

\* _tick from the balance check to the first await: _refresh_balance (bal is the
\* exchange's answer, or the cached value is kept inside the 10 s rate limit), the
\* scan, and the loop up to the first order
BalanceTick(refreshed, opportunities) ==
    /\ tick.pc = "idle"
    /\ orders < MaxOrders
    /\ LET balance == IF refreshed THEN refresh_balance(cash, wallet) ELSE cash
           t == IF balance < min_bet_usdc THEN BalanceIdle
                ELSE tick_loop(opportunities, balance, edge_monitor, sniper_stats, config)
       IN /\ cash' = balance
          /\ tick' = t
          /\ orders' = IF t.pc = "order" THEN orders + 1 ELSE orders
          /\ last' = [op |-> "tick", start |-> balance, committed |-> 0]
    /\ UNCHANGED <<ledger_vars, weather_vars, coin_states, pending_signals, breaker, config,
                   streak, wallet, edge_monitor, sniper_stats, maker, feed_vars>>

\* the exchange matches the FOK order that is in flight and takes its cost
ExchangeMatches ==
    /\ tick.pc = "order"
    /\ ~tick.fly.matched
    /\ wallet >= order_cost(tick.fly.entry_price, tick.fly.num_tokens)
    /\ wallet' = wallet - order_cost(tick.fly.entry_price, tick.fly.num_tokens)
    /\ tick' = [tick EXCEPT !.fly.matched = TRUE]
    /\ UNCHANGED <<ledger_vars, weather_vars, coin_states, pending_signals, breaker, config,
                   streak, orders, cash, edge_monitor, sniper_stats, maker, feed_vars, last>>

\* _handle_market_change lines 1363-1365, between two awaits of the tick: the rate
\* limit is reset and _refresh_balance takes the exchange's answer (a step that
\* changes nothing is left out)
HandlerRefresh ==
    /\ cash' = refresh_balance(cash, wallet)
    /\ cash' # cash
    /\ UNCHANGED <<ledger_vars, weather_vars, sniper_vars, wallet, edge_monitor, sniper_stats,
                   maker, feed_vars, last>>

\* the awaited place_order returns: a matched order is a fill, an order that was
\* not matched was killed (FOK fallback above the minimum size); then the loop goes on
BalanceOrderReturns ==
    /\ tick.pc = "order"
    /\ LET fly == tick.fly
           result == IF fly.matched THEN "filled" ELSE "failed"
       IN IF fok_fallback(result, fly.num_tokens)
          THEN /\ tick' = [tick EXCEPT !.fly.num_tokens = MinOrderTokens]
               /\ orders' = orders + 1
               /\ UNCHANGED <<cash, last>>
          ELSE LET balance == IF result = "filled"
                              THEN deduct(cash, fly.entry_price, fly.num_tokens) ELSE cash
                   t == tick_loop(tick.queue, balance, edge_monitor, sniper_stats, config)
               IN /\ cash' = balance
                  /\ tick' = t
                  /\ orders' = IF t.pc = "order" THEN orders + 1 ELSE orders
                  /\ last' = IF result = "filled"
                             THEN [last EXCEPT !.op = "fill", !.committed =
                                       @ + order_cost(fly.entry_price, fly.num_tokens)]
                             ELSE [last EXCEPT !.op = "killed"]
    /\ UNCHANGED <<ledger_vars, weather_vars, coin_states, pending_signals, breaker, config,
                   streak, wallet, edge_monitor, sniper_stats, maker, feed_vars>>

BalanceNext ==
    \/ \E refreshed \in BOOLEAN, opportunities \in CandidateLists :
          BalanceTick(refreshed, opportunities)
    \/ ExchangeMatches
    \/ HandlerRefresh
    \/ BalanceOrderReturns

BalanceSpec == BalanceInit /\ [][BalanceNext]_vars

----------------------------------------------------------------------------
(* MomentumSniperStrategy: the strike and the expiry of one coin's market window *)

\* GammaClient.TIMEFRAME_SECONDS["15m"]
duration == 900

\* current_slug: str = "", strike_price = 0.0, market_end_ts = 0.0, no market
Unset == 0

\* a slug is identified with the time stamp it ends in, the start of its window
SlugOf(w) == duration * w

\* the seconds into a window at which the model looks: just after the open, past the
\* first minute, and within the last half minute
Offsets == {3, 100, 880}
MaxStrikeWindow == 3
StrikeTimes == {SlugOf(w) + off : w \in 1..MaxStrikeWindow, off \in Offsets}

\* GammaClient.get_current_market: the window of now, then the next one, then the
\* previous one; the first whose lookup succeeds and that accepts orders
get_current_market(now, accepting) ==
    LET current_ts == (now \div duration) * duration
        tried == <<current_ts, current_ts + duration, current_ts - duration>>
        hits == {i \in 1..3 : tried[i] \in accepting}
    IN IF hits = {} THEN Unset
       ELSE tried[CHOOSE i \in hits : \A j \in hits : i <= j]

\* VaticClient.get_strike: the price of the target whose windowStart matches the
\* window (5 seconds of tolerance), None (0) without one
get_strike(targets, window_start_ts) ==
    LET matching == {t \in targets : t.price # Unset /\
                        (window_start_ts > 0 =>
                            /\ t.windowStart - window_start_ts <= 5
                            /\ window_start_ts - t.windowStart <= 5)}
    IN IF matching = {} THEN Unset ELSE (CHOOSE t \in matching : TRUE).price

\* what Vatic may hold for a window: nothing, the window's target, or only the
\* target of the window before it
VaticAnswers(slug) ==
    {{}, {[windowStart |-> slug, price |-> 97010]},
         {[windowStart |-> slug - duration, price |-> 96900]}}

\* spot * math.exp(-d * sigma_sqrt_t) as binary64 evaluates it, rounded to the dollar,
\* by <<spot, up_price in cents, secs_left, vol in percent>>
Backsolve ==
    (<<97000, 30, 800, 50>> :> 97128) @@ (<<97050, 30, 800, 50>> :> 97178)

MidPrices == {5, 30}
StrikeVols == {0, 50}
StrikeSpots == {97000, 97050}

CoinMarket ==
    [current_slug |-> Unset, startup_slug |-> Unset, strike_price |-> Unset,
     strike_source |-> "unknown", market_end_ts |-> Unset, market |-> Unset,
     timer |-> FALSE]

\* CoinMarketState.seconds_to_expiry
seconds_to_expiry(state, now) ==
    IF state.market_end_ts <= 0 THEN 600 ELSE Max(0, state.market_end_ts - now)

set_to(state, price, source) ==
    [state EXCEPT !.strike_price = price, !.strike_source = source]

\* MomentumSniperStrategy._set_strike, for a slug that ends in its time stamp
set_strike(state, spot, now, targets, up_price, vol) ==
    IF state.market = Unset THEN state
    ELSE LET market_start_ts == state.market
             s == [state EXCEPT !.current_slug = state.market,
                                !.market_end_ts = market_start_ts + duration]
             secs_since_window_open ==
                 IF market_start_ts > 0 THEN now - market_start_ts ELSE 999
             vatic_strike == get_strike(targets, market_start_ts)
             secs_left == seconds_to_expiry(s, now)
         IN IF spot <= 0 THEN s
            ELSE IF vatic_strike > 0 THEN set_to(s, vatic_strike, "vatic")
            ELSE IF secs_since_window_open < 60 THEN set_to(s, spot, "binance")
            ELSE IF 10 < up_price /\ up_price < 90 /\ secs_left > 30 /\ vol > 0
            THEN set_to(s, Backsolve[<<spot, up_price, secs_left, vol>>], "backsolve")
            ELSE set_to(s, spot, "binance")

\* _handle_market_change, lines 1380-1392: the new slug is taken over and
\* _set_strike is scheduled three seconds later
on_market_change(state, new_slug) ==
    [state EXCEPT !.startup_slug = IF @ = Unset THEN new_slug ELSE @,
                  !.current_slug = new_slug,
                  !.timer = TRUE]

\* the arguments _calculate_fair_value hands to BinaryFairValue.calculate, or None
fair_value_call(state, spot, now) ==
    IF spot <= 0 \/ state.strike_price <= 0 THEN NoFairValue
    ELSE [spot |-> spot, strike |-> state.strike_price,
          seconds_to_expiry |-> seconds_to_expiry(state, now)]

\* _find_opportunities, lines 845-882, for the coin (no window or volatility filter
\* is configured): the fair value it computes, if it reaches that
find_fair_value(state, spot, now) ==
    IF state.current_slug = Unset THEN NoFairValue
    ELSE IF state.startup_slug = Unset \/ state.current_slug = state.startup_slug
    THEN NoFairValue
    ELSE IF seconds_to_expiry(state, now) <= 0 THEN NoFairValue
    ELSE fair_value_call(state, spot, now)

\* start(): the feed has a first price or timed out waiting for it; the manager has
\* found the startup market and the initial strike is set
StrikeInit ==
    /\ IdleLedger
    /\ IdleWeather
    /\ IdleSniper
    /\ IdleMaker
    /\ clock \in {SlugOf(1) + off : off \in Offsets}
    /\ binance \in {CoinState} \cup {handle_message(CoinState, p, clock) : p \in StrikeSpots}
    /\ \E targets \in VaticAnswers(SlugOf(1)), up_price \in MidPrices, vol \in StrikeVols :
          LET state == set_strike([CoinMarket EXCEPT !.market = SlugOf(1)],
                                  get_price(binance), clock, targets, up_price, vol)
          IN coin_market = [state EXCEPT !.startup_slug = state.current_slug]
    /\ last = [op |-> "init"]

\* time passes to the next instant the model looks at; the three seconds of a
\* scheduled _set_strike are over before that
StrikeAdvance ==
    /\ ~coin_market.timer
    /\ \E t \in StrikeTimes :
          /\ t > clock
          /\ \A u \in StrikeTimes : u > clock => t <= u
          /\ clock' = t
    /\ last' = [op |-> "advance"]
    /\ UNCHANGED <<ledger_vars, weather_vars, sniper_vars, sizer_vars, maker, binance, coin_market>>

\* the manager polls the discovery endpoint and, on a later window than its own,
\* switches to it and emits the market-change event, which the strategy handles;
\* a window that has ended accepts no orders
ManagerPoll(accepting) ==
    LET found == get_current_market(clock, accepting) IN
    /\ found > coin_market.market
    /\ coin_market' = on_market_change([coin_market EXCEPT !.market = found], found)
    /\ last' = [op |-> "on_market_change", old_slug |-> coin_market.current_slug,
                new_slug |-> found]
    /\ UNCHANGED <<ledger_vars, weather_vars, sniper_vars, sizer_vars, maker, binance, clock>>

\* the scheduled _set_strike runs
SetStrikeFires(targets, up_price, vol) ==
    /\ coin_market.timer
    /\ coin_market' = [set_strike(coin_market, get_price(binance), clock, targets, up_price, vol)
                          EXCEPT !.timer = FALSE]
    /\ last' = [op |-> "set_strike", spot |-> get_price(binance),
                vatic_strike |-> get_strike(targets, coin_market.market),
                secs_since_window_open |-> clock - coin_market.market,
                before |-> coin_market]
    /\ UNCHANGED <<ledger_vars, weather_vars, sniper_vars, sizer_vars, maker, binance, clock>>

\* a tick scans the coin
StrikeTick ==
    /\ last' = [op |-> "find_opportunities", slug |-> coin_market.current_slug,
                strike_pending |-> coin_market.timer,
                market_end_ts |-> coin_market.market_end_ts,
                fv_call |-> find_fair_value(coin_market, get_price(binance), clock)]
    /\ UNCHANGED <<ledger_vars, weather_vars, sniper_vars, sizer_vars, maker, feed_vars>>

StrikeNext ==
    \/ \E price \in StrikeSpots : HandleMessage(price)
    \/ StrikeAdvance
    \/ \E accepting \in SUBSET {SlugOf(w) : w \in 1..MaxStrikeWindow} :
          /\ \A slug \in accepting : slug + duration > clock
          /\ ManagerPoll(accepting)
    \/ \E targets \in VaticAnswers(coin_market.market), up_price \in MidPrices,
          vol \in StrikeVols : SetStrikeFires(targets, up_price, vol)
    \/ StrikeTick

StrikeSpec == StrikeInit /\ [][StrikeNext]_vars

----------------------------------------------------------------------------
(* Claims about the ledger, checked under LedgerSpec *)

FileKeys(f) == {f.data[i].key : i \in 1..Len(f.data)}

\* C2: after any sequence of log_trade and log_outcome calls, a TradeLogger built
\* on the files left on disk (crash after the last call returned, then reload) has
\* exactly the keys of the pending map before the crash, and every reloaded record
\* has the same field values, with outcome "pending".
C2_ReloadReproducesPending ==
    LET reloaded == TradeLoggerInit(pending_file, csv_rows).pending IN
    /\ DictKeys(reloaded) = DictKeys(pending_trades)
    /\ \A k \in DictKeys(pending_trades) :
          /\ DictGet(reloaded, k) = DictGet(pending_trades, k)
          /\ DictGet(reloaded, k).outcome = "pending"

\* a restart really happened with a record still pending and another one resolved
C2_Witness ==
    /\ last.op = "restart"
    /\ Len(pending_trades) >= 1
    /\ Len(csv_rows) >= 1

\* C3: log_outcome on a pending key removes the key from the pending map and from
\* the persisted store, appends exactly one row (outcome won/lost, pnl = payout -
\* stake, written with two decimals), updates the aggregates (pending -1, wins or
\* losses +1, total_pnl += payout - stake) and touches no other pending key.
C3_ResolveRemovesAndAppendsOne ==
    [][\A k \in LedgerKeys, won \in BOOLEAN, payout \in Payouts :
        (LedgerLogOutcomeCall(k[1], k[2], won, payout) /\ DictHas(pending_trades, k)) =>
            LET stake == DictGet(pending_trades, k).bet_size_usdc
                row == csv_rows'[Len(csv_rows')]
            IN /\ ~DictHas(pending_trades', k)
               /\ pending_file'.exists
               /\ k \notin FileKeys(pending_file')
               /\ Len(csv_rows') = Len(csv_rows) + 1
               /\ SubSeq(csv_rows', 1, Len(csv_rows)) = csv_rows
               /\ row.market_slug = k[1]
               /\ row.side = k[2]
               /\ row.outcome = (IF won THEN "won" ELSE "lost")
               /\ row.pnl = Fmt2(payout - stake)
               /\ stats'.pending = stats.pending - 1
               /\ stats'.wins = stats.wins + (IF won THEN 1 ELSE 0)
               /\ stats'.losses = stats.losses + (IF won THEN 0 ELSE 1)
               /\ stats'.total_pnl = stats.total_pnl + (payout - stake)
               /\ \A j \in LedgerKeys \ {k} :
                     /\ DictHas(pending_trades', j) <=> DictHas(pending_trades, j)
                     /\ DictHas(pending_trades, j) =>
                            /\ DictGet(pending_trades', j) = DictGet(pending_trades, j)
                            /\ j \in FileKeys(pending_file')
    ]_vars

\* a pending key was resolved while another key stayed pending
C3_Witness ==
    /\ last.op = "log_outcome"
    /\ last.hit
    /\ Len(csv_rows) >= 1
    /\ Len(pending_trades) >= 1

\* C4: log_outcome for a key that is not pending (already resolved or never opened)
\* appends no row and leaves the pending map, the pending store and every aggregate
\* unchanged, whatever won and payout are.
C4_ResolveNotPendingIsNoOp ==
    [][\A k \in LedgerKeys, won \in BOOLEAN, payout \in Payouts :
        (LedgerLogOutcomeCall(k[1], k[2], won, payout) /\ ~DictHas(pending_trades, k)) =>
            /\ csv_rows' = csv_rows
            /\ pending_trades' = pending_trades
            /\ pending_file' = pending_file
            /\ stats' = stats
    ]_vars

\* log_outcome was called on a key that is not pending, after a key had been resolved
C4_Witness ==
    /\ last.op = "log_outcome"
    /\ ~last.hit
    /\ Len(csv_rows) >= 1
    /\ stats.wins + stats.losses >= 1

\* C5: at most one PENDING record per (market, side): opening a trade for a key
\* that is already pending never yields two pending records for it and never
\* replaces the earlier record's stake while counting both trades.
C5_OnePendingPerKey ==
    [][\A k \in LedgerKeys, t \in TradeInputs :
        (LedgerLogTradeCall(k[1], k[2], t) /\ DictHas(pending_trades, k)) =>
            /\ Cardinality({i \in 1..Len(pending_trades') : pending_trades'[i].key = k}) = 1
            /\ ~ /\ DictGet(pending_trades', k).bet_size_usdc # DictGet(pending_trades, k).bet_size_usdc
                 /\ stats'.pending = stats.pending + 1
                 /\ stats'.total_trades = stats.total_trades + 1
    ]_vars

----------------------------------------------------------------------------
(* Claims about the reconciliation pass, checked under ReconSpec *)

ChainSlugs(chain) == {chain[i].slug : i \in 1..Len(chain)}

ChainHeldSlugs(chain) == {chain[i].slug : i \in {j \in 1..Len(chain) : chain[j].size > 0}}

ChainWeatherSlugs(chain) ==
    {chain[i].slug : i \in {j \in 1..Len(chain) :
        chain[j].size > 0 /\ chain[j].temperature /\ chain[j].slug # ""}}

ReconcileRan == last.op = "reconcile" /\ last.fetched

\* C6 (as claimed): after a reconciliation pass that fetched the exchange's position
\* list, the unresolved tracked positions contain no entry absent from the exchange
\* list and contain every exchange position with size > 0.
C6_ReconciledEqualsExchange ==
    ReconcileRan =>
        /\ WUnresolved(w_positions) \subseteq ChainSlugs(w_chain)
        /\ ChainHeldSlugs(w_chain) \subseteq WUnresolved(w_positions)

\* C6 (amended): after such a pass the unresolved tracked positions are exactly the
\* exchange positions with size > 0 whose title mentions "temperature" and whose slug
\* is not empty; the other exchange positions are not tracked.
C6_ReconciledEqualsWeatherOnChain ==
    ReconcileRan => WUnresolved(w_positions) = ChainWeatherSlugs(w_chain)

\* the pass purged a phantom and rebuilt a missing position
C6_Witness ==
    /\ ReconcileRan
    /\ \E k \in last.pre_unresolved : k \notin WUnresolved(w_positions)
    /\ \E k \in WUnresolved(w_positions) : k \notin last.pre_unresolved

\* C7: a pending record with no matching on-chain position is removed from the
\* pending set by the pass, and the tracked balance after the pass equals the
\* balance before it.
C7_PhantomPurgedBalanceUnchanged ==
    ReconcileRan =>
        /\ \A k \in last.pre_unresolved :
              k \notin ChainWeatherSlugs(w_chain) =>
                  /\ k \notin DictKeys(w_positions)
                  /\ k \notin FileKeys(w_file)
        /\ w_balance = last.pre_balance

\* the pass removed a pending record that had no on-chain position
C7_Witness ==
    /\ ReconcileRan
    /\ \E k \in last.pre_unresolved :
          k \notin ChainWeatherSlugs(w_chain) /\ k \notin DictKeys(w_positions)

----------------------------------------------------------------------------
(* Claims about the execution engine, checked under Spec and OrphanSpec *)

\* a step in which place_order is called (the first call of _execute_snipe or its
\* FOK fallback); the order is the one tick' holds in flight
PlacesOrder == orders' > orders

OrderKey(states, fly) == trade_key(states[fly.coin].current_slug, fly.side)

\* C1: in live mode, whenever an order is submitted to the gateway the pending
\* store already holds the pending record of that (market, side): the ledger write
\* precedes place_order, so a crash after the submission leaves a pending record.
C1_LedgerWrittenBeforeOrder ==
    [][PlacesOrder => OrderKey(coin_states', tick'.fly) \in FileKeys(pending_file')]_vars

\* C8: once the count of consecutive losing windows has reached the threshold the
\* tripped flag is set, and while it is set no order is submitted on any path,
\* neither by immediate execution nor by a queued signal that gets confirmed.
C8_NoOrderOnceTripped ==
    [][PlacesOrder => ~breaker'.tripped]_vars

\* C9: whatever the order of the settlements, the losing records of one window
\* raise the consecutive-losing-window counter by one in total: the counter is the
\* number of distinct windows among the losing records settled since the last win.
C9_CounterCountsWindows ==
    breaker # <<>> => breaker.consecutive_loss_windows = Cardinality(streak)

OnStartupWindow(state) ==
    state.startup_slug = NoSlug \/ state.current_slug = state.startup_slug

\* C10: no order is submitted and no position is held for a coin whose current
\* window is its startup window; the startup window is the window of the boot, or,
\* for a coin discovered after the boot, the first window it is discovered on, and
\* it does not change afterwards.
C10_StartupWindowNeverTraded ==
    /\ [](\A c \in DOMAIN coin_states :
            (coin_states[c].up_tokens > 0 \/ coin_states[c].down_tokens > 0) =>
                ~OnStartupWindow(coin_states[c]))
    /\ [][PlacesOrder => ~OnStartupWindow(coin_states'[tick'.fly.coin])]_vars
    /\ [][\A c \in DOMAIN coin_states :
            IF coin_states[c].startup_slug = NoSlug
            THEN coin_states'[c].startup_slug = coin_states'[c].current_slug
            ELSE coin_states'[c].startup_slug = coin_states[c].startup_slug]_vars

\* BTC holds a position on a window after its boot window, and ETH, discovered
\* after the boot, sits on its first window with nothing bought
C10_Witness ==
    /\ coin_states # <<>>
    /\ orders > 0
    /\ coin_states["BTC"].up_tokens + coin_states["BTC"].down_tokens > 0
    /\ coin_states["BTC"].current_slug # coin_states["BTC"].startup_slug
    /\ coin_states["ETH"].startup_slug # NoSlug
    /\ WindowId(coin_states["ETH"].startup_slug) > BootWindow
    /\ coin_states["ETH"].current_slug = coin_states["ETH"].startup_slug

Position(states, coin, side) ==
    IF side = "up" THEN states[coin].up_tokens ELSE states[coin].down_tokens

SamePositions(states, other) ==
    \A c \in Coins : \A side \in Sides : Position(states, c, side) = Position(other, c, side)

C17_SubmittedOrdersPassFilters ==
    [][PlacesOrder => find_opportunities_accepts(tick'.fly.quote)]_vars

\* the order in flight and the order placed by the step are for the same pair
SamePairAgain ==
    /\ tick.pc = "order"
    /\ PlacesOrder
    /\ tick'.fly.coin = tick.fly.coin
    /\ tick'.fly.side = tick.fly.side

\* the pair of the order in flight is under cooldown
Cooling(states, fly) == fly.side \in states[fly.coin].last_fail_time

\* C18 as stated: after an order for an (instrument, side) is rejected or left
\* unfilled, no further order for that pair is submitted during the following 60
\* seconds: the return of an order is never followed by another order for its
\* pair, no order is placed for a pair under cooldown, and a pair leaves the
\* cooldown only by its 60 seconds passing (its market stays the same)
C18_NoOrderWithin60s ==
    /\ [][~SamePairAgain]_vars
    /\ [][PlacesOrder => ~Cooling(coin_states', tick'.fly)]_vars
    /\ [][\A c \in Coins :
            /\ coin_states # <<>>
            /\ coin_states[c].last_fail_time \ coin_states'[c].last_fail_time # {}
            => coin_states'[c].current_slug = coin_states[c].current_slug]_vars

\* C18, amended: an order that is rejected above the minimum size is retried once
\* at the minimum size; an order that comes back unfilled and is not retried puts
\* its (instrument, side) under cooldown, no order is placed for a pair that is
\* under cooldown, and a pair leaves the cooldown when its 60 seconds have passed
\* or when its instrument moves to the next window
C18_CooldownAfterRetry ==
    /\ [][SamePairAgain => /\ tick.fly.num_tokens > MinOrderTokens
                           /\ tick'.fly = [tick.fly EXCEPT !.num_tokens = MinOrderTokens]
                           /\ coin_states' = coin_states]_vars
    /\ [][/\ tick.pc = "order"
          /\ tick' # tick
          /\ ~SamePairAgain
          /\ Position(coin_states', tick.fly.coin, tick.fly.side)
                = Position(coin_states, tick.fly.coin, tick.fly.side)
          => Cooling(coin_states', tick.fly)]_vars
    /\ [][PlacesOrder => ~Cooling(coin_states', tick'.fly)]_vars
    /\ [][\A c \in Coins :
            /\ coin_states # <<>>
            /\ coin_states[c].last_fail_time \ coin_states'[c].last_fail_time # {}
            => \/ coin_states'[c].current_slug # coin_states[c].current_slug
               \/ /\ tick' = tick
                  /\ orders' = orders
                  /\ UNCHANGED ledger_vars]_vars

\* both place_order calls of one Kelly-sized order were rejected and the pair is
\* under cooldown
C18_Witness ==
    /\ coin_states # <<>>
    /\ tick.pc = "idle"
    /\ orders = 2
    /\ pending_trades = <<>>
    /\ csv_rows = <<>>
    /\ SamePositions(coin_states, [c \in Coins |-> CoinMarketState(c)])
    /\ coin_states["BTC"].last_fail_time = {"up"}
    /\ coin_states["ETH"].last_fail_time = {}

\* C26: a rejected order is retried at most once: a second place_order for the
\* pair in flight follows only an order above the minimum size that was neither
\* filled nor left on the book, it is for exactly the minimum size on the same
\* market data (same price), and nothing is recorded by that step; when the last
\* order of the call comes back without a fill the pair is under cooldown and
\* neither the ledger nor the balance has moved
C26_RetriedAtMostOnce ==
    /\ [][SamePairAgain => /\ tick.fly.num_tokens > MinOrderTokens
                           /\ tick'.fly.num_tokens = MinOrderTokens
                           /\ tick'.fly.quote = tick.fly.quote
                           /\ orders' = orders + 1
                           /\ UNCHANGED <<ledger_vars, cash, coin_states>>]_vars
    /\ [][/\ tick.pc = "order"
          /\ tick' # tick
          /\ ~SamePairAgain
          /\ Position(coin_states', tick.fly.coin, tick.fly.side)
                = Position(coin_states, tick.fly.coin, tick.fly.side)
          => /\ Cooling(coin_states', tick.fly)
             /\ UNCHANGED <<ledger_vars, cash>>]_vars

\* the minimum-size retry of a rejected Kelly-sized order is in flight: two
\* place_order calls, no fill, no cooldown yet
C26_Witness ==
    /\ coin_states # <<>>
    /\ tick.pc = "order"
    /\ orders = 2
    /\ tick.fly.num_tokens = MinOrderTokens
    /\ pending_trades = <<>>
    /\ csv_rows = <<>>
    /\ \A c \in Coins : coin_states[c].last_fail_time = {}

C28_OneFillPerSidePerMarket ==
    /\ [][\A c \in Coins, side \in Sides :
            (coin_states # <<>> /\ Position(coin_states', c, side) > Position(coin_states, c, side))
            => /\ Position(coin_states, c, side) = 0
               /\ tick.pc = "order"
               /\ tick.fly.coin = c
               /\ tick.fly.side = side
               /\ Position(coin_states', c, side) = tick.fly.num_tokens]_vars
    /\ [][\A c \in Coins, side \in Sides :
            (coin_states # <<>> /\ Position(coin_states', c, side) < Position(coin_states, c, side))
            => coin_states'[c].current_slug # coin_states[c].current_slug]_vars

\* with signal confirmation on, two orders went to the exchange for BTC, one of
\* which was filled on the Up side, and the engine is back between two ticks
C28_Witness ==
    /\ coin_states # <<>>
    /\ config.confirm_gap
    /\ tick.pc = "idle"
    /\ orders = 2
    /\ coin_states["ETH"].current_slug = NoSlug
    /\ Position(coin_states, "BTC", "up") = MinOrderTokens
    /\ Position(coin_states, "BTC", "down") = 0
    /\ Len(pending_trades) = 1

\* the resolved rows of the ledger with the given outcome
RowsWith(outcome) == {i \in 1..Len(csv_rows) : csv_rows[i].outcome = outcome}

\* the monitor after it was fed the outcome of every resolved row once, in order
RECURSIVE FedOnce(_, _, _)
FedOnce(rows, i, monitor) ==
    IF i > Len(rows) THEN monitor
    ELSE FedOnce(rows, i + 1, monitor_record(monitor, rows[i].outcome = "won"))

EndedAndPending(pending, states) ==
    {i \in 1..Len(pending) : Closed(states, pending[i].rec.market_slug)}

C20_PendingRecordMeansPosition ==
    coin_states # <<>> =>
        \A i \in 1..Len(pending_trades) :
            Position(coin_states, pending_trades[i].rec.market_slug[1],
                     pending_trades[i].rec.side) > 0

----------------------------------------------------------------------------
(* Claims about the balance and the sizer, checked under SizerSpec *)

\* C11: when a balance query fails (get_usdc_balance() returns None), the capital
\* available for sizing is zero: neither the cached balance nor the configured
\* starting bankroll stands in for the missing answer.
C11_FailedQueryMeansZeroCapital ==
    (last.op = "refresh" /\ last.bal = NoBalance) => available_balance(cash) = 0

\* C14: for every entry price strictly between 0.01 and 0.99 and every balance,
\* _kelly_bet_usdc returns 0 whenever the fair probability is less than or equal
\* to the entry price.
C14_NoEdgeNoBet ==
    (/\ last.op = "kelly"
     /\ 1 < last.entry_price /\ last.entry_price < 99
     /\ last.fair_prob <= last.entry_price)
    => last.usdc = 0

\* C15: for a fair probability above the entry price the bet returned by
\* _kelly_bet_usdc is >= 0 and at most max_bet_fraction of the available capital,
\* whatever the balance (also when min_bet_usdc is above the capped amount).
C15_BetWithinHardCap ==
    (last.op = "kelly" /\ last.fair_prob > last.entry_price)
    => /\ last.usdc >= 0
       /\ last.usdc * 100 <= (max_bet_fraction \div 1000) * last.available

\* C19: once the CUSUM accumulator has crossed its threshold (the alarm is on),
\* every later sizing call uses the floor coefficient 0.25; winning settlements never
\* lift it (reset() has no caller in the engine): a sizing call made while the
\* alarm is on uses 0.25, and an alarm that is on stays on.
C19_AlarmLatchesFloor ==
    /\ []((last.op = "kelly" /\ edge_monitor # <<>> /\ edge_monitor.alarm)
            => last.fraction = 2500)
    /\ [][(edge_monitor # <<>> /\ edge_monitor.alarm) => edge_monitor'.alarm]_vars

----------------------------------------------------------------------------
(* Claims about the market maker's settlement, checked under MakerSpec *)

\* C12: a position and its pending record are settled only with the winning side
\* the outcome oracle reports for the market; while the oracle reports none they
\* stay pending, and no winner is taken from a heuristic such as the last known
\* market prices.
C12_SettledOnlyOnOracleReport ==
    (last.op = "on_market_change" /\ last.winning_side # "none")
    => last.oracle = last.winning_side

\* C25: on a market change the market maker cancels its outstanding quotes at
\* the exchange: once on_market_change has run, every order that rests at the
\* exchange is one whose id the strategy tracks
C25_NoUntrackedQuoteAfterChange ==
    last.op = "on_market_change" =>
        \A o \in maker.exchange : o \in {maker.quotes.up_order_id, maker.quotes.down_order_id}

----------------------------------------------------------------------------
(* Claims about the start of the engine, checked under BootSpec *)

\* C13: at startup the pending store is loaded, and the pending records of earlier
\* sessions are checked against Gamma before any market manager is started, any
\* tick runs or any order is placed; a record whose market Gamma reports is
\* resolved, and a record whose market Gamma does not report yet stays in the
\* pending store with its fields.
C13_OrphansCheckedBeforeOperation ==
    /\ [](tick.pc = "boot" => Ledger = TradeLoggerInit(pending_file, csv_rows))
    /\ [](tick.pc \in {"boot", "managers"}
             => coin_states = <<>> /\ orders = 0 /\ pending_signals = {})
    /\ [][coin_states = <<>> /\ coin_states' # <<>> => tick.pc = "managers"]_vars
    /\ [][tick.pc = "boot" /\ tick'.pc # "boot"
            => /\ last'.op = "resolve_orphaned_trades"
               /\ \A i \in 1..Len(pending_trades) :
                     LET e == pending_trades[i] IN
                     IF last'.gamma[e.rec.market_slug] = "none"
                     THEN /\ DictHas(pending_trades', e.key)
                          /\ DictGet(pending_trades', e.key) = e.rec
                          /\ e.key \in FileKeys(pending_file')
                     ELSE ~DictHas(pending_trades', e.key)]_vars

\* start() has passed the orphan check with one record resolved and the other, whose
\* market Gamma did not report, still pending
C13_Witness ==
    /\ tick.pc = "managers"
    /\ last.op = "resolve_orphaned_trades"
    /\ Len(csv_rows) = 1
    /\ Len(pending_trades) = 1
    /\ last.gamma[pending_trades[1].rec.market_slug] = "none"

-----------------------------------------------------------------------------
(* Claims about the price feed and the fair value, checked under FairValueSpec *)

FreshnessBound == 1         \* seconds after which a price counts as stale

\* C21: a market whose price is missing (0) or stale (no update within the
\* freshness bound) gets no fair value in that tick, and so no order
C21_StalePriceIsSkipped ==
    (/\ last.op = "calculate_fair_value"
     /\ (last.spot <= 0 \/ last.age > FreshnessBound))
        => last.fv = NoFairValue

\* C22: for every input, expired markets and non-positive spot or strike
\* included, both probabilities of the fair value lie in [0.01, 0.99]
C22_ProbabilitiesClamped ==
    last.op = "calculate" =>
        /\ MIN_PRICE <= last.fv.fair_up /\ last.fv.fair_up <= MAX_PRICE
        /\ MIN_PRICE <= last.fv.fair_down /\ last.fv.fair_down <= MAX_PRICE

\* C23: with seconds to expiry <= 0 the fair value is the deterministic step:
\* fair_up is 1.0 above the strike, 0.0 below it, 0.5 on it, and fair_down is
\* 1 - fair_up
C23_ExpiredIsStep ==
    (last.op = "calculate" /\ last.seconds_to_expiry <= 0) =>
        /\ last.fv.fair_up = (IF last.spot > last.strike THEN 10000
                              ELSE IF last.spot < last.strike THEN 0 ELSE 5000)
        /\ last.fv.fair_down = 10000 - last.fv.fair_up

\* test_math, test 5: expired above the strike
C23_Witness ==
    /\ last.op = "calculate"
    /\ last.seconds_to_expiry = 0
    /\ last.spot = 97050
    /\ last.strike = 97000
    /\ last.fv = FairValue(10000, 0)

-----------------------------------------------------------------------------
(* Claims about the weather bot's live execution, checked under LiveTradeSpec *)

\* C24: the position is in memory and in the pending store before the order is
\* sent (while place_order is awaited); when the order raises or is rejected the
\* position is removed, the balance is back at its value before the call and the
\* pending store is rewritten without it; when the order fills the position stays
\* recorded once, in memory and in the store, and stays paid for
C24_PreRecordedThenRolledBack ==
    /\ [](w_pc = "order" =>
            /\ DictHas(w_positions, w_trade.slug)
            /\ w_trade.slug \in FileKeys(w_file)
            /\ w_balance = last.balance - trade_cost(w_trade))
    /\ [](last.op = "place_order" =>
            IF last.outcome = "filled"
            THEN /\ Len(SelectSeq(w_positions, LAMBDA e : e.key = last.trade.slug)) = 1
                 /\ Len(SelectSeq(w_file.data, LAMBDA e : e.key = last.trade.slug)) = 1
                 /\ DictGet(w_positions, last.trade.slug).num_tokens = last.trade.num_tokens
                 /\ w_balance = last.balance - trade_cost(last.trade)
            ELSE /\ w_positions = last.positions
                 /\ w_balance = last.balance
                 /\ w_file = w_save_pending(w_positions)
                 /\ last.trade.slug \notin FileKeys(w_file))

\* a second trade was rejected after a first one had filled
C24_Witness ==
    /\ last.op = "place_order"
    /\ last.outcome = "rejected"
    /\ Len(w_positions) = 1
    /\ Len(w_file.data) = 1
    /\ last.trade.slug \notin FileKeys(w_file)

----------------------------------------------------------------------------
(* Claims about the strike of a window, checked under StrikeSpec *)

\* C31: after a market-change event no fair value is computed for the new window
\* from the strike or the expiry of the previous one: while the scheduled strike
\* determination is still pending the scan computes no fair value, and the expiry
\* it uses is the one of the current slug.
C31_NoFairValueFromPreviousWindow ==
    (last.op = "find_opportunities" /\ last.fv_call # NoFairValue) =>
        /\ ~last.strike_pending
        /\ last.market_end_ts = last.slug + duration

\* C33: a Vatic snapshot that is available for the window becomes the strike,
\* whatever the age of the window and whether there is a spot price or not.
C33_VaticWheneverAvailable ==
    (last.op = "set_strike" /\ last.vatic_strike > 0) =>
        /\ coin_market.strike_price = last.vatic_strike
        /\ coin_market.strike_source = "vatic"

----------------------------------------------------------------------------
(* Claims about the tracked balance, checked under BalanceSpec *)

\* C32: within a tick every fill is deducted before the next candidate is sized and
\* every order costs at most the balance available when it is sized, so the tracked
\* balance is never driven below zero by fills.
C32_BalanceNeverBelowZero ==
    /\ cash >= 0
    /\ tick.pc = "order" =>
          order_cost(tick.fly.entry_price, tick.fly.num_tokens) <= tick.fly.available

----------------------------------------------------------------------------
(* Claims about the handler of a market change, checked under Spec *)

----------------------------------------------------------------------------
(* Claims about the circuit breaker, checked under BreakerSpec *)

\* C35: once the circuit breaker has tripped no later settlement clears the flag,
\* not even a winning one that resets the count of losing windows: it stays set
\* until the process is restarted.
C35_TrippedIsStable ==
    [][(breaker.tripped /\ last'.op = "settle") => breaker'.tripped]_vars

\* a win has been settled after the trip: the count is back at zero, the flag is set
C35_Witness ==
    /\ last.op = "settle"
    /\ last.side_won
    /\ breaker.tripped
    /\ breaker.consecutive_loss_windows = 0

----------------------------------------------------------------------------
(* Claims about the market maker's fills, checked under MakerSpec *)

\* C36: the maker records a fill for a quote that left the open orders (inventory
\* raised, ledger record opened) only when the exchange reports the order as matched
\* or filled; a quote of unconfirmed or cancelled status is not recorded as a fill.
C36_FillOnlyWhenConfirmed ==
    [][stats'.total_trades > stats.total_trades =>
          last'.order_detail \in {"matched", "filled"}]_vars

----------------------------------------------------------------------------
(* Claims about crashes inside a ledger call, checked under CrashSpec *)

\* C37: a crash inside a rewrite of the pending store loses no record that was
\* persisted before it: after the restart every record that was pending and on disk
\* before the interrupted write (other than the one being resolved) is pending again.
C37_RewriteIsAllOrNothing ==
    last.op = "died_saving" => \A k \in last.persisted : DictHas(pending_trades, k)

\* C38: across crashes and restarts a trade key is appended to the resolved log at
\* most once.
C38_ResolvedAtMostOnce ==
    \A i, j \in 1..Len(csv_rows) :
        trade_key(csv_rows[i].market_slug, csv_rows[i].side) =
            trade_key(csv_rows[j].market_slug, csv_rows[j].side) => i = j

----------------------------------------------------------------------------
(* Claims about the ledger's counters, checked under LedgerSpec *)

\* C39: after any sequence of log_trade, log_outcome and reload-from-disk
\* operations stats.pending equals the number of entries of the pending map and is
\* never negative.
C39_PendingCounterMatchesMap ==
    /\ stats.pending = Len(pending_trades)
    /\ stats.pending >= 0

====
